---- MODULE Spec2Model ----
(***************************************************************************)
(* A model of the requirement optimizer of oipromot: the optimizer and    *)
(* session state machine of core_optimizer.py and the WebSocket delivery  *)
(* adapter of web_app.py that drives them.                                *)
(*                                                                         *)
(* Python strings are sequences of Unicode code points, so that lower(),  *)
(* strip(), startswith(), the CJK scan and string concatenation are       *)
(* computed as the code computes them.  Python dicts are records; the     *)
(* test  "k" in d  is  "k" \in DOMAIN d.  None is the empty function.     *)
(***************************************************************************)
EXTENDS Integers, Sequences, FiniteSets, TLC

\* ------------------------------------------------------------------------
\* Strings
\* ------------------------------------------------------------------------

\* None (and the empty dict): the falsy values of  "if result:".
None == <<>>

\* bool(d) of a dict-or-None value.
Truthy(d) == DOMAIN d # {}

\* str.isspace() of one character (the whitespace str.strip() removes).
IsSpace(c) == c \in {9, 10, 11, 12, 13, 28, 29, 30, 31, 32, 133, 160, 12288}

\* str.lower() of one character: the ASCII letters (the bounded inputs hold
\* no other cased character).
LowerChar(c) == IF c >= 65 /\ c <= 90 THEN c + 32 ELSE c

\* str.upper() of one character.
UpperChar(c) == IF c >= 97 /\ c <= 122 THEN c - 32 ELSE c

\* str.lower() left out: the text as it is.
NotLowered(s) == [i \in 1..Len(s) |-> s[i]]

\* str.lower()
Lower(s) == [i \in 1..Len(s) |-> LowerChar(s[i])]

\* str.lstrip(): drop leading whitespace.
RECURSIVE LStrip(_)
LStrip(s) == IF s # <<>> /\ IsSpace(Head(s)) THEN LStrip(Tail(s)) ELSE s

\* str.rstrip(): drop trailing whitespace.
RECURSIVE RStrip(_)
RStrip(s) ==
    IF s # <<>> /\ IsSpace(s[Len(s)]) THEN RStrip(SubSeq(s, 1, Len(s) - 1)) ELSE s

\* str.strip()
Strip(s) == RStrip(LStrip(s))

\* s.startswith(p)
StartsWith(s, p) == Len(p) <= Len(s) /\ SubSeq(s, 1, Len(p)) = p

\* p in s  (substring test)
Contains(s, p) ==
    \E i \in 0..(Len(s) - Len(p)) : SubSeq(s, i + 1, i + Len(p)) = p

\* s[n:]
DropFirst(s, n) == SubSeq(s, n + 1, Len(s))

\* ------------------------------------------------------------------------
\* RequirementOptimizer (core_optimizer.py)
\* ------------------------------------------------------------------------

\* API_BASE_URL as the client holds it: "http://localhost:11434/v1/"
base_url ==
    <<104, 116, 116, 112, 58, 47, 47, 108, 111, 99, 97, 108, 104, 111, 115, 116,
      58, 49, 49, 52, 51, 52, 47, 118, 49, 47>>

\* self.model: "qwen3:1.7b"
model == <<113, 119, 101, 110, 51, 58, 49, 46, 55, 98>>

\* The range test with both ends left out.
detect_chinese_exclusive(text) ==
    \E i \in 1..Len(text) : text[i] > 19968 /\ text[i] < 40959

\* _detect_chinese: any('\u4e00' <= char <= '\u9fff' for char in text)
detect_chinese(text) == \E i \in 1..Len(text) : text[i] >= 19968 /\ text[i] <= 40959

\* The four system prompts of _get_prompt.  Each literal is held by its
\* closing line, which tells the four apart.
\* qing jiang yi xia yong hu shu ru zhuan hua wei qing xi de xu qiu miao shu:
prompt_optimization_zh ==
    <<35831, 23558, 20197, 19979, 29992, 25143, 36755, 20837, 36716, 21270, 20026,
      28165, 26224, 30340, 38656, 27714, 25551, 36848, 65306>>

\* Please transform the following user input into a clear requirement description:
prompt_optimization_en ==
    <<80, 108, 101, 97, 115, 101, 32, 116, 114, 97, 110, 115, 102, 111, 114, 109, 32,
      116, 104, 101, 32, 102, 111, 108, 108, 111, 119, 105, 110, 103, 32, 117, 115,
      101, 114, 32, 105, 110, 112, 117, 116, 32, 105, 110, 116, 111, 32, 97, 32, 99,
      108, 101, 97, 114, 32, 114, 101, 113, 117, 105, 114, 101, 109, 101, 110, 116,
      32, 100, 101, 115, 99, 114, 105, 112, 116, 105, 111, 110, 58>>

\* qing ti gong tiao zheng hou de xu qiu miao shu:
prompt_refinement_zh ==
    <<35831, 25552, 20379, 35843, 25972, 21518, 30340, 38656, 27714, 25551, 36848,
      65306>>

\* Please provide the adjusted requirement description:
prompt_refinement_en ==
    <<80, 108, 101, 97, 115, 101, 32, 112, 114, 111, 118, 105, 100, 101, 32, 116, 104,
      101, 32, 97, 100, 106, 117, 115, 116, 101, 100, 32, 114, 101, 113, 117, 105,
      114, 101, 109, 101, 110, 116, 32, 100, 101, 115, 99, 114, 105, 112, 116, 105,
      111, 110, 58>>

\* _get_prompt that answers in English whatever the language of text.
get_prompt_one_language(text, mode) ==
    IF mode = "optimization" THEN prompt_optimization_en ELSE prompt_refinement_en

\* _get_prompt: the system prompt for (mode, language of text); an unknown
\* mode raises ValueError.
get_prompt(text, mode) ==
    IF mode = "optimization"
    THEN (IF detect_chinese(text) THEN prompt_optimization_zh ELSE prompt_optimization_en)
    ELSE IF mode = "refinement"
    THEN (IF detect_chinese(text) THEN prompt_refinement_zh ELSE prompt_refinement_en)
    ELSE "ValueError"

get_optimization_prompt(user_input) == get_prompt(user_input, "optimization")

get_refinement_prompt(feedback) == get_prompt(feedback, "refinement")

\* The filler prefixes of _simple_clean, in list order.
filler_patterns ==
    << <<112, 108, 101, 97, 115, 101, 32, 104, 101, 108, 112, 32, 109, 101>>,        \* please help me
       <<99, 97, 110, 32, 121, 111, 117, 32, 104, 101, 108, 112, 32, 109, 101>>,     \* can you help me
       <<105, 32, 110, 101, 101, 100, 32, 104, 101, 108, 112, 32, 119, 105, 116, 104>>, \* i need help with
       <<105, 32, 119, 97, 110, 116, 32, 116, 111>>,                                 \* i want to
       <<105, 32, 119, 111, 117, 108, 100, 32, 108, 105, 107, 101, 32, 116, 111>>,   \* i would like to
       <<99, 111, 117, 108, 100, 32, 121, 111, 117>>,                                \* could you
       <<99, 97, 110, 32, 121, 111, 117>>,                                           \* can you
       <<35831, 24110, 25105>>,                                                      \* qing bang wo
       <<20320, 33021, 24110, 25105>>,                                               \* ni neng bang wo
       <<25105, 24819, 35201>>,                                                      \* wo xiang yao
       <<25105, 38656, 35201>>,                                                      \* wo xu yao
       <<33021, 19981, 33021>>,                                                      \* neng bu neng
       <<21487, 20197, 21527>> >>                                                    \* ke yi ma

\* _simple_clean: strip, drop the first filler prefix that matches the
\* lower-cased text (then strip again), capitalise the first character.
simple_clean(user_input) ==
    LET cleaned0 == Strip(user_input)
        lower_cleaned == Lower(cleaned0)
        hits == {k \in 1..Len(filler_patterns) : StartsWith(lower_cleaned, filler_patterns[k])}
        first == CHOOSE k \in hits : \A j \in hits : k <= j
        cleaned1 == IF hits = {} THEN cleaned0
                    ELSE Strip(DropFirst(cleaned0, Len(filler_patterns[first])))
    IN  IF cleaned1 # <<>> THEN <<UpperChar(Head(cleaned1))>> \o Tail(cleaned1) ELSE cleaned1

\* _format_error: classify str(error).lower() by substring, first match wins.
format_error(error) ==
    LET error_str == Lower(error)
        has(k) == Contains(error_str, k)
    IN  IF has(<<99, 111, 110, 110, 101, 99, 116, 105, 111, 110>>)         \* connection
           \/ has(<<116, 105, 109, 101, 111, 117, 116>>)                   \* timeout
           \/ has(<<110, 101, 116, 119, 111, 114, 107>>)                   \* network
        THEN [type |-> <<36830, 25509, 38169, 35823>>,
              message |-> <<26080, 27861, 36830, 25509, 21040, 65, 80, 73, 26381, 21153,
                            22120, 32, 40>> \o base_url \o <<41>>,
              suggestion |-> <<35831, 26816, 26597, 32593, 32476, 36830, 25509, 21644, 65,
                               80, 73, 26381, 21153, 22120, 22320, 22336, 37197, 32622>>]
        ELSE IF has(<<117, 110, 97, 117, 116, 104, 111, 114, 105, 122, 101, 100>>) \* unauthorized
           \/ has(<<52, 48, 49>>)                                          \* 401
           \/ has(<<97, 112, 105, 32, 107, 101, 121>>)                     \* api key
        THEN [type |-> <<35748, 35777, 38169, 35823>>,
              message |-> <<65, 80, 73, 23494, 38053, 39564, 35777, 22833, 36133>>,
              suggestion |-> <<35831, 26816, 26597, 46, 101, 110, 118, 25991, 20214, 20013,
                               30340, 65, 80, 73, 95, 75, 69, 89, 37197, 32622, 26159, 21542,
                               27491, 30830>>]
        ELSE IF has(<<114, 97, 116, 101, 32, 108, 105, 109, 105, 116>>)    \* rate limit
           \/ has(<<52, 50, 57>>)                                          \* 429
        THEN [type |-> <<39057, 29575, 38480, 21046>>,
              message |-> <<65, 80, 73, 35843, 29992, 39057, 29575, 36229, 20986, 38480, 21046>>,
              suggestion |-> <<35831, 31245, 31561, 29255, 21051, 21518, 37325, 35797, 65292,
                               25110, 26816, 26597, 65, 80, 73, 37197, 39069>>]
        ELSE IF has(<<109, 111, 100, 101, 108>>)                           \* model
           /\ (has(<<110, 111, 116, 32, 102, 111, 117, 110, 100>>)         \* not found
               \/ has(<<52, 48, 52>>))                                     \* 404
        THEN [type |-> <<27169, 22411, 38169, 35823>>,
              message |-> <<27169, 22411, 32, 39>> \o model \o <<39, 32, 19981, 21487, 29992>>,
              suggestion |-> <<35831, 26816, 26597, 46, 101, 110, 118, 25991, 20214, 20013,
                               30340, 65, 73, 95, 77, 79, 68, 69, 76, 37197, 32622, 65292,
                               30830, 20445, 27169, 22411, 21517, 31216, 27491, 30830>>]
        ELSE IF has(<<53, 48, 48>>) \/ has(<<53, 48, 50>>) \/ has(<<53, 48, 51>>) \* 500 502 503
        THEN [type |-> <<26381, 21153, 22120, 38169, 35823>>,
              message |-> <<65, 80, 73, 26381, 21153, 22120, 20869, 37096, 38169, 35823>>,
              suggestion |-> <<26381, 21153, 22120, 26242, 26102, 19981, 21487, 29992, 65292,
                               35831, 31245, 21518, 37325, 35797>>]
        ELSE IF has(<<106, 115, 111, 110>>) \/ has(<<112, 97, 114, 115, 101>>) \* json parse
        THEN [type |-> <<21709, 24212, 26684, 24335, 38169, 35823>>,
              message |-> <<65, 80, 73, 21709, 24212, 26684, 24335, 24322, 24120>>,
              suggestion |-> <<65, 80, 73, 26381, 21153, 21487, 33021, 19981, 20860, 23481,
                               65292, 35831, 26816, 26597, 65, 80, 73, 95, 66, 65, 83, 69, 95,
                               85, 82, 76, 37197, 32622>>]
        ELSE [type |-> <<26410, 30693, 38169, 35823>>,
              message |-> error,
              suggestion |-> <<35831, 26816, 26597, 32593, 32476, 36830, 25509, 21644, 65,
                               80, 73, 37197, 32622, 65292, 25110, 32852, 31995, 25216, 26415,
                               25903, 25345>>]

\* request_params of _call_api: what is handed to chat.completions.create.
request_params(system_prompt, user_input) ==
    [model |-> model,
     messages |-> << [role |-> "system", content |-> system_prompt],
                     [role |-> "user", content |-> user_input] >>,
     max_tokens |-> 1500,
     temperature_x10 |-> 1,
     extra_body |-> [enable_thinking |-> FALSE]]

\* str(e) of the AttributeError raised by  None.strip()  when the reply
\* carries no content: 'NoneType' object has no attribute 'strip'
NoContentError ==
    <<39, 78, 111, 110, 101, 84, 121, 112, 101, 39, 32, 111, 98, 106, 101, 99, 116, 32,
      104, 97, 115, 32, 110, 111, 32, 97, 116, 116, 114, 105, 98, 117, 116, 101, 32, 39,
      115, 116, 114, 105, 112, 39>>

\* _call_api from the point where the awaited create() call ends: outcome is
\* a reply with content, a reply whose content is None, or a raised exception.
call_api(outcome, response_time) ==
    IF outcome.kind = "content"
    THEN [mode |-> <<26631, 20934, 27169, 24335>>,          \* biao zhun mo shi
          response_time |-> response_time,
          result |-> Strip(outcome.content)]
    ELSE LET e == IF outcome.kind = "raise" THEN outcome.error ELSE NoContentError
             error_info == format_error(e)
         IN  [error |-> error_info.message,
              error_type |-> error_info.type,
              error_suggestion |-> error_info.suggestion,
              response_time |-> response_time]

\* optimize_requirement after _call_api returned result.
optimize_requirement(user_input, result) ==
    IF Truthy(result)
    THEN result
    ELSE [result |-> simple_clean(user_input),
          response_time |-> 0,
          mode |-> <<22238, 36864, 27169, 24335>>]          \* hui tui mo shi

\* The user message worded in the language of the prior result, not of the
\* feedback.
refine_user_message_by_prior(initial_result, feedback) ==
    IF detect_chinese(initial_result)
    THEN <<20043, 21069, 30340, 38656, 27714, 25551, 36848, 65306>> \o initial_result
         \o <<10, 29992, 25143, 21453, 39304, 65306>> \o feedback
    ELSE <<80, 114, 101, 118, 105, 111, 117, 115, 32, 114, 101, 113, 117, 105, 114, 101,
           109, 101, 110, 116, 32, 100, 101, 115, 99, 114, 105, 112, 116, 105, 111, 110,
           58, 32>> \o initial_result
         \o <<10, 85, 115, 101, 114, 32, 102, 101, 101, 100, 98, 97, 99, 107, 58, 32>>
         \o feedback

\* The user message refine_requirement sends.
refine_user_message(initial_result, feedback) ==
    IF detect_chinese(feedback)
    THEN <<20043, 21069, 30340, 38656, 27714, 25551, 36848, 65306>> \o initial_result
         \o <<10, 29992, 25143, 21453, 39304, 65306>> \o feedback
    ELSE <<80, 114, 101, 118, 105, 111, 117, 115, 32, 114, 101, 113, 117, 105, 114, 101,
           109, 101, 110, 116, 32, 100, 101, 115, 99, 114, 105, 112, 116, 105, 111, 110,
           58, 32>> \o initial_result
         \o <<10, 85, 115, 101, 114, 32, 102, 101, 101, 100, 98, 97, 99, 107, 58, 32>>
         \o feedback

\* refine_requirement with the test of web_app_old.py,  result and "result" in
\* result,  which sends a failed call to the fallback.
refine_requirement_checked(initial_result, feedback, result) ==
    IF Truthy(result) /\ "result" \in DOMAIN result
    THEN result
    ELSE [result |-> initial_result \o <<10, 10>>
                     \o <<91, 85, 115, 101, 114, 32, 102, 101, 101, 100, 98, 97, 99, 107,
                          58, 32>> \o feedback \o <<93>>,
          response_time |-> 0,
          mode |-> <<22238, 36864, 27169, 24335>>]

\* refine_requirement after _call_api returned result.
refine_requirement(initial_result, feedback, result) ==
    IF Truthy(result)
    THEN result
    ELSE LET feedback_note ==
                 IF detect_chinese(feedback)
                 THEN <<91, 29992, 25143, 21453, 39304, 58, 32>> \o feedback \o <<93>>
                 ELSE <<91, 85, 115, 101, 114, 32, 102, 101, 101, 100, 98, 97, 99, 107,
                        58, 32>> \o feedback \o <<93>>
         IN  [result |-> initial_result \o <<10, 10>> \o feedback_note,
              response_time |-> 0,
              mode |-> <<22238, 36864, 27169, 24335>>]

\* ------------------------------------------------------------------------
\* SessionManager (core_optimizer.py)
\* ------------------------------------------------------------------------

\* SessionManager.__init__
SessionManager ==
    [current_requirement |-> <<>>, current_feedback |-> <<>>, status |-> "IDLE"]

\* dict.get(key, default)
Get(d, key, default) == IF key \in DOMAIN d THEN d[key] ELSE default

\* _format_error_message
format_error_message(result) ==
    LET error_type == Get(result, "error_type", <<38169, 35823>>)
        error_message == Get(result, "error", <<26410, 30693, 38169, 35823>>)
        suggestion == Get(result, "error_suggestion", <<>>)
        formatted_message == <<12304>> \o error_type \o <<12305>> \o error_message
    IN  IF suggestion # <<>>
        THEN formatted_message \o <<10, 10, 128161, 32, 24314, 35758, 58, 32>> \o suggestion
        ELSE formatted_message

\* The error envelope start_session and handle_feedback build.
error_envelope(result) ==
    [type |-> "error",
     content |-> format_error_message(result),
     response_time |-> result.response_time,
     error_type |-> Get(result, "error_type", <<26410, 30693, 38169, 35823>>),
     error_suggestion |-> Get(result, "error_suggestion", <<>>)]

\* start_session with the error branch of web_app_old.py, which returns
\* without assigning the status.
start_session_return_no_status(result) ==
    IF "error" \in DOMAIN result
    THEN [status |-> "PROCESSING", envelope |-> error_envelope(result)]
    ELSE [status |-> "WAITING_FEEDBACK",
          envelope |-> [type |-> "ai_response",
                        content |-> result.result,
                        response_time |-> result.response_time,
                        mode |-> result.mode]]

\* The tail of start_session, after optimize_requirement returned result:
\* the status it sets and the envelope it returns.
start_session_return(result) ==
    IF "error" \in DOMAIN result
    THEN [status |-> "ERROR", envelope |-> error_envelope(result)]
    ELSE [status |-> "WAITING_FEEDBACK",
          envelope |-> [type |-> "ai_response",
                        content |-> result.result,
                        response_time |-> result.response_time,
                        mode |-> result.mode]]

\* handle_feedback with the success envelope copied from start_session.
handle_feedback_return_copied(result) ==
    IF "error" \in DOMAIN result
    THEN [status |-> "ERROR", envelope |-> error_envelope(result)]
    ELSE [status |-> "WAITING_FEEDBACK",
          envelope |-> [type |-> "ai_response",
                        content |-> result.result,
                        response_time |-> result.response_time,
                        mode |-> result.mode]]

\* The tail of handle_feedback, after refine_requirement returned result.
handle_feedback_return(result) ==
    IF "error" \in DOMAIN result
    THEN [status |-> "ERROR", envelope |-> error_envelope(result)]
    ELSE [status |-> "WAITING_FEEDBACK",
          envelope |-> [type |-> "ai_response_refined",
                        content |-> result.result,
                        response_time |-> result.response_time,
                        mode |-> result.mode]]

\* The command test without lower():  feedback in ['/n', 'n']
is_reset_command_exact(feedback) == feedback \in {<<47, 110>>, <<110>>}

\* feedback.lower() in ['/n', 'n']
is_reset_command(feedback) == Lower(feedback) \in {<<47, 110>>, <<110>>}

\* reset_session: the object it leaves and the envelope it returns.
reset_session ==
    [session |-> [current_requirement |-> <<>>, current_feedback |-> <<>>,
                  status |-> "IDLE"],
     envelope |-> [type |-> "new_conversation",
                   content |-> <<24320, 22987, 26032, 23545, 35805>>]]  \* kai shi xin dui hua

\* ------------------------------------------------------------------------
\* State
\* ------------------------------------------------------------------------

VARIABLES
    sm,                  \* the SessionManager objects, by object id (None: no such object)
    sessions,            \* manager.sessions: session id -> object id (0: no entry)
    active_connections,  \* manager.active_connections: session id -> websocket (0: no entry)
    conn,                \* each websocket: its endpoint's session_id and whether it is open
    task,                \* each coroutine that calls the SessionManager: where it is,
                         \* its locals, and what its last call returned or raised
    hist,                \* per object: the call on it that ended last (start_session
                         \* or handle_feedback) and how its optimizer call ended
    scenario,            \* how far the caller has followed start / feedback / "/n"
    last,                \* the websocket whose event was handled last, and the call
                         \* that ended in that step, if one did
    prompt,              \* the table of Prompt rows, by primary key (None: no row)
    uuids,               \* how many primary keys uuid4 has handed out
    deleted,             \* the primary keys whose DELETE was answered 204
    favoritecommand      \* the table of FavoriteCommand rows, by primary key

vars == <<sm, sessions, active_connections, conn, task, hist, scenario, last,
          prompt, uuids, deleted, favoritecommand>>

\* The databases of the prompt routes and of the favorite routes.
dbvars == <<prompt, uuids, deleted, favoritecommand>>

\* How many prompts are created in one run.
MaxPrompts == 3

\* The primary keys uuid4 hands out, in the order it hands them out.
PromptIds == 1..MaxPrompts

\* How many favorite commands are created in one run.
MaxFavorites == 3

\* The primary keys of the favorite commands, in the order uuid4 hands them out.
FavoriteIds == 1..MaxFavorites

\* The databases after their tables were created: no row in either.
EmptyDatabase ==
    /\ prompt = [id \in PromptIds |-> None]
    /\ uuids = 0
    /\ deleted = {}
    /\ favoritecommand = [id \in FavoriteIds |-> None]

\* A value that is not a string (a JSON number or null in "content"):
\* iterating it raises TypeError, .lower() raises AttributeError.
NonStr == <<-1>>

IsStr(x) == x # NonStr

\* The texts callers pass.
Texts ==
    { <<110>>,                                              \* "n"
      <<78>>,                                               \* "N"
      <<47, 110>>,                                          \* "/n"
      <<47, 78>>,                                           \* "/N"
      <<32, 110>>,                                          \* " n"
      <<104, 105>>,                                         \* "hi"
      <<67, 97, 110, 32, 121, 111, 117, 32, 115, 117, 109>>, \* "Can you sum"
      <<20320, 22909>> }                                    \* "ni hao" (CJK)

\* The awaited create() call exceeds the client's timeout: the openai client
\* raises APITimeoutError, whose text is "Request timed out.".
TimedOut ==
    [kind |-> "raise",
     error |-> <<82, 101, 113, 117, 101, 115, 116, 32, 116, 105, 109, 101, 100, 32, 111, 117, 116, 46>>]

\* What the awaited chat-completion call can do.
Outcomes ==
    { TimedOut,
      [kind |-> "content", content |-> <<111, 107>>],            \* "ok"
      [kind |-> "content", content |-> <<32, 111, 107, 10>>],    \* " ok\n"
      [kind |-> "content", content |-> <<>>],                    \* ""
      [kind |-> "none"],                                         \* content is None
      [kind |-> "raise",                                         \* "Connection error."
       error |-> <<67, 111, 110, 110, 101, 99, 116, 105, 111, 110, 32, 101, 114, 114,
                   111, 114, 46>>],
      [kind |-> "raise",                                         \* "401 Unauthorized"
       error |-> <<52, 48, 49, 32, 85, 110, 97, 117, 116, 104, 111, 114, 105, 122, 101,
                   100>>],
      [kind |-> "raise", error |-> <<98, 111, 111, 109>>] }      \* "boom"

\* time.time() - start_time, in whole seconds.
ResponseTimes == {1, 2}

\* A coroutine that is not inside a call and has made none.
IdleTask ==
    [pc |-> "idle", obj |-> 0, op |-> "none", arg |-> <<>>, initial_result |-> <<>>,
     req |-> None, from |-> "none", outcome |-> None, optret |-> None, ret |-> None,
     raised |-> "none", status_at_return |-> "none"]

NoHist == [op |-> "none", last |-> "none"]

NoLast == [conn |-> 0, call |-> IdleTask, frames |-> <<>>]

\* ------------------------------------------------------------------------
\* SessionManager methods as steps of the coroutine t on the object o.
\* Each gives the new values of sm, task and hist.
\* ------------------------------------------------------------------------

\* start_session that leaves the stored feedback as it was.
start_session_call_keeps_feedback(t, o, user_input) ==
    [sm |-> [sm EXCEPT ![o] = [current_requirement |-> user_input,
                               current_feedback |-> sm[o].current_feedback,
                               status |-> "PROCESSING"]],
     task |-> [task EXCEPT ![t] =
            IF IsStr(user_input)
            THEN [IdleTask EXCEPT !.pc = "api", !.obj = o, !.op = "start_session",
                      !.arg = user_input, !.from = sm[o].status,
                      !.req = request_params(get_optimization_prompt(user_input),
                                             user_input)]
            ELSE [IdleTask EXCEPT !.obj = o, !.op = "start_session", !.arg = user_input,
                      !.from = sm[o].status, !.raised = "TypeError",
                      !.status_at_return = "PROCESSING"]],
     hist |-> hist]

\* start_session up to the awaited create() call.  A non-string input makes
\* _detect_chinese raise TypeError after the three fields were assigned.
start_session_call(t, o, user_input) ==
    [sm |-> [sm EXCEPT ![o] = [current_requirement |-> user_input,
                               current_feedback |-> <<>>,
                               status |-> "PROCESSING"]],
     task |-> [task EXCEPT ![t] =
            IF IsStr(user_input)
            THEN [IdleTask EXCEPT !.pc = "api", !.obj = o, !.op = "start_session",
                      !.arg = user_input, !.from = sm[o].status,
                      !.req = request_params(get_optimization_prompt(user_input),
                                             user_input)]
            ELSE [IdleTask EXCEPT !.obj = o, !.op = "start_session", !.arg = user_input,
                      !.from = sm[o].status, !.raised = "TypeError",
                      !.status_at_return = "PROCESSING"]],
     hist |-> hist]

\* handle_feedback up to the awaited create() call, or to its return when
\* feedback is a reset command.  A non-string feedback raises AttributeError
\* at feedback.lower(), before anything is assigned.
handle_feedback_call(t, o, feedback) ==
    IF ~IsStr(feedback)
    THEN [sm |-> sm,
          task |-> [task EXCEPT ![t] =
                [IdleTask EXCEPT !.obj = o, !.op = "handle_feedback", !.arg = feedback,
                     !.from = sm[o].status, !.raised = "AttributeError",
                     !.status_at_return = sm[o].status]],
          hist |-> hist]
    ELSE IF is_reset_command(feedback)
    THEN [sm |-> [sm EXCEPT ![o] = reset_session.session],
          task |-> [task EXCEPT ![t] =
                [IdleTask EXCEPT !.obj = o, !.op = "handle_feedback", !.arg = feedback,
                     !.from = sm[o].status, !.ret = reset_session.envelope,
                     !.status_at_return = reset_session.session.status]],
          hist |-> hist]
    ELSE [sm |-> [sm EXCEPT ![o].current_feedback = feedback,
                            ![o].status = "PROCESSING"],
          task |-> [task EXCEPT ![t] =
                [IdleTask EXCEPT !.pc = "api", !.obj = o, !.op = "handle_feedback",
                     !.arg = feedback, !.from = sm[o].status,
                     !.initial_result = sm[o].current_requirement,
                     !.req = request_params(
                                 get_refinement_prompt(feedback),
                                 refine_user_message(sm[o].current_requirement,
                                                     feedback))]],
          hist |-> hist]

\* reset_session called directly.
reset_session_call(t, o) ==
    [sm |-> [sm EXCEPT ![o] = reset_session.session],
     task |-> [task EXCEPT ![t] =
            [IdleTask EXCEPT !.obj = o, !.op = "reset_session",
                 !.from = sm[o].status, !.ret = reset_session.envelope,
                 !.status_at_return = reset_session.session.status]],
     hist |-> hist]

\* What the optimizer method running in t returns once create() ended.
optimizer_return(t, outcome, response_time) ==
    IF task[t].op = "start_session"
    THEN optimize_requirement(task[t].arg, call_api(outcome, response_time))
    ELSE refine_requirement(task[t].initial_result, task[t].arg,
                            call_api(outcome, response_time))

\* What the SessionManager method running in t does with that value.
session_return(t, result) ==
    IF task[t].op = "start_session"
    THEN start_session_return(result)
    ELSE handle_feedback_return(result)

\* The awaited create() call of t ends: _call_api, the optimizer method and
\* the SessionManager method run to their return.
api_return(t, outcome, response_time) ==
    LET o == task[t].obj
        result == optimizer_return(t, outcome, response_time)
        r == session_return(t, result)
    IN  [sm |-> [sm EXCEPT ![o].status = r.status],
         task |-> [task EXCEPT ![t].pc = "idle",
                               ![t].outcome = outcome,
                               ![t].optret = result,
                               ![t].ret = r.envelope,
                               ![t].status_at_return = r.status],
         hist |-> [hist EXCEPT ![o] =
                [op |-> task[t].op,
                 last |-> IF "error" \in DOMAIN result THEN "failure" ELSE "success"]]]

\* ------------------------------------------------------------------------
\* Spec: one SessionManager driven by one caller that awaits each call
\* ------------------------------------------------------------------------

Inputs == Texts \cup {NonStr}

\* The scenario monitor at the return of a call that reached the API.
scenario_after_return(t, outcome) ==
    IF outcome.kind # "content" THEN "off"
    ELSE IF task[t].op = "start_session" /\ scenario = "fresh" THEN "started"
    ELSE IF task[t].op = "handle_feedback" /\ scenario = "started" THEN "refined"
    ELSE "off"

Init ==
    /\ sm = [o \in {1} |-> SessionManager]
    /\ hist = [o \in {1} |-> NoHist]
    /\ task = [t \in {1} |-> IdleTask]
    /\ sessions = <<>>
    /\ active_connections = <<>>
    /\ conn = <<>>
    /\ scenario = "fresh"
    /\ last = NoLast
    /\ EmptyDatabase

\* The caller's step r: the new values of sm, task and hist.
Called(r) ==
    /\ sm' = r.sm
    /\ task' = r.task
    /\ hist' = r.hist
    /\ UNCHANGED <<sessions, active_connections, conn, last, dbvars>>

StartSession(user_input) ==
    /\ task[1].pc = "idle"
    /\ Called(start_session_call(1, 1, user_input))
    /\ scenario' = IF scenario = "fresh" /\ IsStr(user_input) THEN "fresh" ELSE "off"

HandleFeedback(feedback) ==
    /\ task[1].pc = "idle"
    /\ Called(handle_feedback_call(1, 1, feedback))
    /\ scenario' = IF scenario = "started" /\ IsStr(feedback) /\ ~is_reset_command(feedback)
                   THEN "started"
                   ELSE IF scenario = "refined" /\ feedback = <<47, 110>>
                   THEN "reset"
                   ELSE "off"

ResetSession ==
    /\ task[1].pc = "idle"
    /\ Called(reset_session_call(1, 1))
    /\ scenario' = "off"

ApiReturn(outcome, response_time) ==
    /\ task[1].pc = "api"
    /\ Called(api_return(1, outcome, response_time))
    /\ scenario' = scenario_after_return(1, outcome)

Next ==
    \/ \E user_input \in Inputs : StartSession(user_input)
    \/ \E feedback \in Inputs : HandleFeedback(feedback)
    \/ ResetSession
    \/ \E outcome \in Outcomes, response_time \in ResponseTimes :
           ApiReturn(outcome, response_time)

Spec == Init /\ [][Next]_vars

\* ------------------------------------------------------------------------
\* SpecWeb: the WebSocket adapter of web_app.py.  Each connection c runs one
\* websocket_endpoint coroutine, task[c]; it suspends in receive_text()
\* (pc "idle") and in the chat-completion call of the message it handles
\* (pc "api").  The sends are taken together with the code around them.
\* ------------------------------------------------------------------------

\* The websockets: two clients, each of which may connect again after it closed.
Conns == {1, 2}

\* The session_id path parameters clients connect with.
Sids == {1, 2}

\* The SessionManager objects manager.connect constructs over a run.
MaxObjs == 2

Objs == 1..MaxObjs

\* An object that was made and that nothing refers to any more.
Collected == [collected |-> TRUE]

\* The "content" values of the user_input frames clients send.
WebContents == { <<104, 105>>, <<47, 110>> }               \* "hi", "/n"

\* What the chat-completion call does in SpecWeb.
WebOutcomes ==
    { [kind |-> "content", content |-> <<111, 107>>],
      [kind |-> "raise",
       error |-> <<67, 111, 110, 110, 101, 99, 116, 105, 111, 110, 32, 101, 114, 114,
                   111, 114, 46>>] }

FreeConn == [state |-> "free", sid |-> 0]

InitWeb ==
    /\ sm = [o \in Objs |-> None]
    /\ hist = [o \in Objs |-> NoHist]
    /\ task = [c \in Conns |-> IdleTask]
    /\ sessions = [sid \in Sids |-> 0]
    /\ active_connections = [sid \in Sids |-> 0]
    /\ conn = [c \in Conns |-> FreeConn]
    /\ scenario = "off"
    /\ last = NoLast
    /\ EmptyDatabase

\* An object Python still holds: registered, or the self of a running method.
Referenced(o, sess, tsk) ==
    \/ \E sid \in Sids : sess[sid] = o
    \/ \E c \in Conns : tsk[c].pc = "api" /\ tsk[c].obj = o

\* The frame of a method that returned or raised: its locals are gone.
Returned(tk) ==
    [tk EXCEPT !.arg = <<>>, !.initial_result = <<>>, !.req = None, !.outcome = None,
        !.obj = 0, !.from = "none"]

\* The step of the coroutine of c: r gives sm, task, hist, sessions,
\* active_connections and conn after it; objects nothing refers to are freed,
\* and a call that ended in the step and the frames the step sent are kept in
\* last.
Sending(c, r, frames) ==
    /\ sm' = [o \in Objs |-> IF r.sm[o] = None \/ Referenced(o, r.sessions, r.task)
                              THEN r.sm[o] ELSE Collected]
    /\ hist' = [o \in Objs |-> IF Referenced(o, r.sessions, r.task) THEN r.hist[o] ELSE NoHist]
    /\ task' = [k \in Conns |-> IF r.task[k].pc = "idle" THEN IdleTask
                                ELSE [r.task[k] EXCEPT !.from = "none"]]
    /\ last' = [conn |-> c,
                call |-> IF r.task[c].pc = "idle" THEN Returned(r.task[c]) ELSE IdleTask,
                frames |-> frames]
    /\ sessions' = r.sessions
    /\ active_connections' = r.active_connections
    /\ conn' = r.conn
    /\ UNCHANGED <<scenario, dbvars>>

\* A step of the coroutine of c that sends nothing.
Handled(c, r) == Sending(c, r, <<>>)

\* The registries as they are.
Registry ==
    [sessions |-> sessions, active_connections |-> active_connections, conn |-> conn]

\* A disconnect that leaves the SessionManager in manager.sessions.
disconnect_keeps_session(c, session_id) ==
    [sessions |-> sessions,
     active_connections |-> [active_connections EXCEPT ![session_id] = 0],
     conn |-> [conn EXCEPT ![c] = FreeConn]]

\* manager.disconnect(session_id) as run by the coroutine of c, which ends.
disconnect(c, session_id) ==
    [sessions |-> [sessions EXCEPT ![session_id] = 0],
     active_connections |-> [active_connections EXCEPT ![session_id] = 0],
     conn |-> [conn EXCEPT ![c] = FreeConn]]

\* send_message(session_id, ...) raises: the websocket registered under the
\* id was closed by its client.
send_fails(session_id) ==
    /\ active_connections[session_id] # 0
    /\ conn[active_connections[session_id]].state = "gone"

\* The registries after the coroutine of c sent its result: a send to a
\* closed websocket raises, the except branch's own send raises again, and
\* websocket_endpoint ends with manager.disconnect.  After a send that went
\* through, the coroutine of a websocket its client closed gets
\* WebSocketDisconnect from its next receive_text() and ends the same way.
after_send(c) ==
    IF send_fails(conn[c].sid) \/ conn[c].state = "gone"
    THEN disconnect(c, conn[c].sid)
    ELSE Registry

\* The frames send_message(session_id, {"type": type, ...}) sends: one, to the
\* websocket registered under the id; none when the id has no websocket
\* (the call returns) or when the send raises.
send_message(session_id, type) ==
    IF active_connections[session_id] = 0 \/ send_fails(session_id)
    THEN <<>>
    ELSE <<[type |-> type, websocket |-> active_connections[session_id]]>>

\* r and q together (records with different fields).
Both(r, q) ==
    [sm |-> r.sm, task |-> r.task, hist |-> r.hist, sessions |-> q.sessions,
     active_connections |-> q.active_connections, conn |-> q.conn]

\* handle_message when session_id is not in manager.sessions.
no_session(c) ==
    [sm |-> sm,
     task |-> [task EXCEPT ![c] =
            [IdleTask EXCEPT !.op = "handle_message",
                 !.ret = [type |-> "error", content |-> "no_session"]]],
     hist |-> hist]

\* websocket_endpoint up to its first receive_text(): manager.connect
\* registers the websocket and a new SessionManager under session_id.
Connect(c, session_id) ==
    /\ conn[c].state = "free"
    /\ \E o \in Objs :
        /\ sm[o] = None
        /\ \A p \in Objs : p < o => sm[p] # None
        /\ Handled(c, [sm |-> [sm EXCEPT ![o] = SessionManager],
                       hist |-> hist,
                       task |-> [task EXCEPT ![c] = IdleTask],
                       sessions |-> [sessions EXCEPT ![session_id] = o],
                       active_connections |->
                           [active_connections EXCEPT ![session_id] = c],
                       conn |-> [conn EXCEPT ![c] =
                                    [state |-> "open", sid |-> session_id]]])

\* str(e) of the exception a number in "content" raises.
exception_text(raised) ==
    IF raised = "TypeError"
    THEN <<39, 105, 110, 116, 39, 32, 111, 98, 106, 101, 99, 116, 32, 105, 115, 32, 110, 111, 116, 32, 105, 116, 101, 114, 97, 98, 108, 101>>
    ELSE <<39, 105, 110, 116, 39, 32, 111, 98, 106, 101, 99, 116, 32, 104, 97, 115, 32, 110, 111, 32, 97, 116, 116, 114, 105, 98, 117, 116, 101, 32, 39, 108, 111, 119, 101, 114, 39>>

\* The except branch of handle_message: an exception raised by the handler of
\* the frame is logged and an error frame is sent in place of the result.
caught(c, r) ==
    IF r.task[c].pc = "idle" /\ r.task[c].raised # "none"
    THEN [r EXCEPT !.task[c].ret =
             [type |-> "error",
              content |-> <<22788, 29702, 28040, 24687, 26102, 20986, 38169, 58, 32>>   \* chu li xiao xi shi chu cuo
                          \o exception_text(r.task[c].raised)]]
    ELSE r

\* The branch of _handle_user_input with ERROR taken as IDLE.
handle_user_input_restarts_after_error(c, o, content) ==
    IF sm[o].status \in {"IDLE", "ERROR"}
    THEN caught(c, start_session_call(c, o, content))
    ELSE caught(c, handle_feedback_call(c, o, content))

\* _handle_user_input after its processing frame: start_session in status
\* IDLE, handle_feedback in any other, up to the chat-completion call or to
\* the return when none is made.
handle_user_input(c, o, content) ==
    IF sm[o].status = "IDLE"
    THEN caught(c, start_session_call(c, o, content))
    ELSE caught(c, handle_feedback_call(c, o, content))

\* _handle_user_input ended by its first send, which raised; the send of the
\* except branch of handle_message raised again.
send_raised(c) ==
    [sm |-> sm,
     task |-> [task EXCEPT ![c] =
            [IdleTask EXCEPT !.op = "_handle_user_input", !.raised = "WebSocketDisconnect"]],
     hist |-> hist]

\* A user_input frame arrives: handle_message and _handle_user_input up to
\* the chat-completion call, or to their return when none is made.  The
\* processing frame is sent before the session is looked at; when that send
\* raises, no call is made and websocket_endpoint ends with a disconnect.
ReceiveUserInput(c, content) ==
    LET sid == conn[c].sid
        o == sessions[sid]
        r == IF o = 0 THEN no_session(c)
             ELSE IF send_fails(sid) THEN send_raised(c)
             ELSE handle_user_input(c, o, content)
        frames == IF o = 0 THEN send_message(sid, "error")
                  ELSE send_message(sid, "processing")
                       \o (IF r.task[c].pc = "idle" /\ r.task[c].raised # "WebSocketDisconnect"
                           THEN send_message(sid, r.task[c].ret.type) ELSE <<>>)
    IN  /\ conn[c].state = "open"
        /\ task[c].pc = "idle"
        /\ Sending(c, Both(r, IF r.task[c].pc = "idle" THEN after_send(c) ELSE Registry),
                   frames)

\* A new_conversation frame arrives: _handle_new_conversation.
ReceiveNewConversation(c) ==
    LET o == sessions[conn[c].sid]
    IN  /\ conn[c].state = "open"
        /\ task[c].pc = "idle"
        /\ Sending(c, Both(IF o = 0 THEN no_session(c) ELSE reset_session_call(c, o),
                        after_send(c)),
                   send_message(conn[c].sid, IF o = 0 THEN "error" ELSE "new_conversation"))

\* The chat-completion call of the message c handles ends; the result is sent.
ApiDone(c, outcome, response_time) ==
    /\ task[c].pc = "api"
    /\ Sending(c, Both(api_return(c, outcome, response_time), after_send(c)),
               send_message(conn[c].sid,
                            api_return(c, outcome, response_time).task[c].ret.type))

\* The client of c closes its socket.  A coroutine waiting in receive_text()
\* gets WebSocketDisconnect and runs manager.disconnect; one inside a
\* handler learns of it at its next send.
ClientClose(c) ==
    /\ conn[c].state = "open"
    /\ Handled(c, Both([sm |-> sm, task |-> task, hist |-> hist],
                    IF task[c].pc = "idle"
                    THEN disconnect(c, conn[c].sid)
                    ELSE [Registry EXCEPT !.conn[c].state = "gone"]))

NextWeb ==
    \/ \E c \in Conns, session_id \in Sids : Connect(c, session_id)
    \/ \E c \in Conns, content \in WebContents : ReceiveUserInput(c, content)
    \/ \E c \in Conns : ReceiveNewConversation(c)
    \/ \E c \in Conns, outcome \in WebOutcomes : ApiDone(c, outcome, 1)
    \/ \E c \in Conns : ClientClose(c)

SpecWeb == InitWeb /\ [][NextWeb]_vars

\* ------------------------------------------------------------------------
\* SpecFrames: one websocket client of web_app.py and every kind of text
\* frame it can send: user_input with a string or a number as content,
\* new_conversation, an unknown type, text that is not JSON, and JSON that is
\* not an object.
\* ------------------------------------------------------------------------

\* The "content" values of the user_input frames.
FrameContents == WebContents \cup {NonStr}

\* A frame whose "type" is neither user_input nor new_conversation: the else
\* branch of handle_message logs a warning and sends nothing.
ReceiveUnknownType(c) ==
    LET o == sessions[conn[c].sid]
        r == IF o = 0 THEN no_session(c)
             ELSE [sm |-> sm,
                   task |-> [task EXCEPT ![c] = [IdleTask EXCEPT !.op = "handle_message"]],
                   hist |-> hist]
    IN  /\ conn[c].state = "open"
        /\ task[c].pc = "idle"
        /\ Sending(c, Both(r, IF o = 0 THEN after_send(c) ELSE Registry),
                   IF o = 0 THEN send_message(conn[c].sid, "error") ELSE <<>>)

\* A frame that is not JSON: orjson.loads raises JSONDecodeError, which the
\* receive loop catches, sending an error frame.
ReceiveInvalidJson(c) ==
    /\ conn[c].state = "open"
    /\ task[c].pc = "idle"
    /\ Sending(c, Both([sm |-> sm,
                        task |-> [task EXCEPT ![c] =
                               [IdleTask EXCEPT !.op = "websocket_endpoint",
                                    !.ret = [type |-> "error",
                                             \* wu xiao de xiao xi ge shi
                                             content |-> <<26080, 25928, 30340, 28040,
                                                           24687, 26684, 24335>>]]],
                        hist |-> hist],
                       after_send(c)),
               send_message(conn[c].sid, "error"))

\* A frame that is JSON but no object (a list, a number, a string, null):
\* message.get in the first statement of handle_message raises
\* AttributeError outside its try; the receive loop does not catch it, the
\* outer except of websocket_endpoint runs manager.disconnect and the
\* coroutine ends.
ReceiveNonObject(c) ==
    /\ conn[c].state = "open"
    /\ task[c].pc = "idle"
    /\ Handled(c, Both([sm |-> sm,
                        task |-> [task EXCEPT ![c] =
                               [IdleTask EXCEPT !.op = "handle_message",
                                    !.raised = "AttributeError"]],
                        hist |-> hist],
                       disconnect(c, conn[c].sid)))

NextFrames ==
    \/ \E session_id \in Sids : Connect(1, session_id)
    \/ \E content \in FrameContents : ReceiveUserInput(1, content)
    \/ ReceiveNewConversation(1)
    \/ ReceiveUnknownType(1)
    \/ ReceiveInvalidJson(1)
    \/ ReceiveNonObject(1)
    \/ \E outcome \in WebOutcomes : ApiDone(1, outcome, 1)
    \/ ClientClose(1)

SpecFrames == InitWeb /\ [][NextFrames]_vars

\* ------------------------------------------------------------------------
\* SpecPure: the helper methods of RequirementOptimizer called one at a time
\* on texts drawn from bounded sets.  task[1] holds the latest call: the
\* method in op, its argument in arg, what it returned in ret.
\* ------------------------------------------------------------------------

\* Pieces of exception texts, in the case servers and clients write them.
ErrorFragments ==
    {
      <<67, 111, 110, 110, 101, 99, 116, 105, 111, 110, 32, 116, 105, 109, 101, 100, 32, 111, 117, 116>>,   \* "Connection timed out"
      <<52, 48, 49, 32, 85, 110, 97, 117, 116, 104, 111, 114, 105, 122, 101, 100>>,   \* "401 Unauthorized"
      <<82, 97, 116, 101, 32, 108, 105, 109, 105, 116>>,   \* "Rate limit"
      <<52, 50, 57>>,   \* "429"
      <<109, 111, 100, 101, 108>>,   \* "model"
      <<110, 111, 116, 32, 102, 111, 117, 110, 100>>,   \* "not found"
      <<52, 48, 52>>,   \* "404"
      <<53, 48, 50>>,   \* "502"
      <<74, 83, 79, 78>>,   \* "JSON"
      <<112, 97, 114, 115, 101>>,   \* "parse"
      <<98, 111, 111, 109>>,   \* "boom"
      <<78, 101, 116, 119, 111, 114, 107>>,   \* "Network"
      <<65, 80, 73, 32, 107, 101, 121>>,   \* "API key"
      <<116, 105, 109, 101, 111, 117, 116>> }   \* "timeout"

\* str(error): one piece, or two joined by ": ".
ErrorTexts ==
    ErrorFragments \cup { a \o <<58, 32>> \o b : a, b \in ErrorFragments }

\* A call of the method op on arg that returned ret.  When a _get_prompt call
\* follows another, last keeps the earlier one.
PureCall(op, arg, ret) ==
    /\ task' = [task EXCEPT ![1] = [IdleTask EXCEPT !.op = op, !.arg = arg, !.ret = ret]]
    /\ last' = [conn |-> 0,
                call |-> IF op = "_get_prompt" /\ task[1].op = "_get_prompt"
                         THEN task[1] ELSE IdleTask,
                frames |-> <<>>]
    /\ UNCHANGED <<sm, sessions, active_connections, conn, hist, scenario, dbvars>>

\* _format_error(error, response_time) with str(error) = error.
FormatError(error) == PureCall("_format_error", error, format_error(error))

\* Whitespace a reply may carry around its text: none, " ", "\n".
ReplySpaces == { <<>>, <<32>>, <<10>> }

\* The think block of a reply: none, "<think>a</think>", "<think>\n</think>".
ThinkBlocks ==
    { <<>>,
      <<60, 116, 104, 105, 110, 107, 62, 97, 60, 47, 116, 104, 105, 110, 107, 62>>,
      <<60, 116, 104, 105, 110, 107, 62, 10, 60, 47, 116, 104, 105, 110, 107, 62>> }

\* The text X of a reply: "X", "a b".
ReplyTexts == { <<88>>, <<97, 32, 98>> }

\* message.content of the replies of the chat endpoint.
ReplyContents ==
    { pre \o th \o mid \o x \o post :
          pre \in ReplySpaces, th \in ThinkBlocks, mid \in ReplySpaces,
          x \in ReplyTexts, post \in ReplySpaces }

\* _call_api when the awaited create() returned a reply with this content.
CallApi(content) ==
    PureCall("_call_api", content, call_api([kind |-> "content", content |-> content], 1))

\* The texts users send, one of them with the "/t" marker: "/t hi".
RequestTexts == Texts \cup { <<47, 116, 32, 104, 105>> }

\* The request _call_api of web_app_old.py builds: "/t" in the user message
\* turns thinking on; without it the system prompt is replaced by the short
\* no-think prompt.
old_request_params(system_prompt, user_input) ==
    LET enable_thinking == Contains(user_input, <<47, 116>>)
        no_think == ~enable_thinking
    IN  [model |-> model,
         messages |-> << [role |-> "system",
                          content |-> IF no_think THEN "no_think_zh" ELSE system_prompt],
                         [role |-> "user", content |-> user_input] >>,
         max_tokens |-> IF no_think THEN 1500 ELSE 3000,
         temperature_x10 |-> IF no_think THEN 1 ELSE 3,
         extra_body |-> [enable_thinking |-> enable_thinking]]

\* The request optimize_requirement(user_input) has _call_api send.
OptimizeRequest(user_input) ==
    PureCall("optimize_request", user_input,
             request_params(get_optimization_prompt(user_input), user_input))

\* The request refine_requirement(initial_result, feedback) has _call_api send.
RefineRequest(initial_result, feedback) ==
    PureCall("refine_request", <<initial_result, feedback>>,
             request_params(get_refinement_prompt(feedback),
                            refine_user_message(initial_result, feedback)))

\* The request optimize_requirement(user_input) of web_app_old.py sends.
OldOptimizeRequest(user_input) ==
    PureCall("old_optimize_request", user_input,
             old_request_params("old_optimization_zh", user_input))

\* The longest text _detect_chinese is called on.
MaxTextLen == 3

\* The characters of those texts: "a", hiragana a (U+3042), and the
\* characters just outside and at the ends of U+4E00..U+9FFF.
TextChars == {97, 12354, 19967, 19968, 40959, 40960}

\* Every text of up to MaxTextLen of these characters.
ShortTexts == UNION { [1..n -> TextChars] : n \in 0..MaxTextLen }

\* _detect_chinese(text)
DetectChinese(text) == PureCall("_detect_chinese", text, detect_chinese(text))

\* The texts _get_prompt is called on: "", "hi", "ni hao" (CJK), "hi ni".
PromptTexts == { <<>>, <<104, 105>>, <<20320, 22909>>, <<104, 105, 32, 20320>> }

\* The modes the optimizer passes to _get_prompt.
PromptModes == {"optimization", "refinement"}

\* _get_prompt(text, mode)
GetPrompt(text, mode) == PureCall("_get_prompt", <<text, mode>>, get_prompt(text, mode))

\* ------------------------------------------------------------------------
\* CapabilityAnalyzer (src/oipromot/ai/capability_analyzer.py)
\* ------------------------------------------------------------------------

\* self.ai_strengths: the categories in the order of the dict.
ai_strengths ==
    <<
      [category |-> "content_creation",
       keywords |-> {
         <<119, 114, 105, 116, 101>>,   \* write
         <<103, 101, 110, 101, 114, 97, 116, 101>>,   \* generate
         <<99, 114, 101, 97, 116, 101, 32, 99, 111, 110, 116, 101, 110, 116>>,   \* create content
         <<100, 114, 97, 102, 116>>,   \* draft
         <<99, 111, 109, 112, 111, 115, 101>>,   \* compose
         <<20889>>,   \* U+5199
         <<29983, 25104>>,   \* U+751F U+6210
         <<21019, 24314>>,   \* U+521B U+5EFA
         <<36215, 33609>> }],   \* U+8D77 U+8349
      [category |-> "text_processing",
       keywords |-> {
         <<115, 117, 109, 109, 97, 114, 105, 122, 101>>,   \* summarize
         <<116, 114, 97, 110, 115, 108, 97, 116, 101>>,   \* translate
         <<114, 101, 119, 114, 105, 116, 101>>,   \* rewrite
         <<97, 110, 97, 108, 121, 122, 101, 32, 116, 101, 120, 116>>,   \* analyze text
         <<101, 120, 116, 114, 97, 99, 116>>,   \* extract
         <<24635, 32467>>,   \* U+603B U+7ED3
         <<32763, 35793>>,   \* U+7FFB U+8BD1
         <<25913, 20889>>,   \* U+6539 U+5199
         <<20998, 26512>> }],   \* U+5206 U+6790
      [category |-> "creative_tasks",
       keywords |-> {
         <<98, 114, 97, 105, 110, 115, 116, 111, 114, 109>>,   \* brainstorm
         <<100, 101, 115, 105, 103, 110>>,   \* design
         <<99, 114, 101, 97, 116, 105, 118, 101>>,   \* creative
         <<105, 100, 101, 97, 115>>,   \* ideas
         <<22836, 33041, 39118, 26292>>,   \* U+5934 U+8111 U+98CE U+66B4
         <<35774, 35745>>,   \* U+8BBE U+8BA1
         <<21019, 24847>>,   \* U+521B U+610F
         <<24819, 27861>> }],   \* U+60F3 U+6CD5
      [category |-> "analysis",
       keywords |-> {
         <<97, 110, 97, 108, 121, 122, 101>>,   \* analyze
         <<114, 101, 118, 105, 101, 119>>,   \* review
         <<99, 111, 109, 112, 97, 114, 101>>,   \* compare
         <<101, 118, 97, 108, 117, 97, 116, 101>>,   \* evaluate
         <<20998, 26512>>,   \* U+5206 U+6790
         <<35780, 20272>>,   \* U+8BC4 U+4F30
         <<27604, 36739>>,   \* U+6BD4 U+8F83
         <<23457, 26597>> }]   \* U+5BA1 U+67E5
    >>

\* self.vba_strengths
vba_strengths ==
    <<
      [category |-> "data_processing",
       keywords |-> {
         <<98, 97, 116, 99, 104>>,   \* batch
         <<98, 117, 108, 107>>,   \* bulk
         <<109, 97, 115, 115>>,   \* mass
         <<109, 117, 108, 116, 105, 112, 108, 101, 32, 102, 105, 108, 101, 115>>,   \* multiple files
         <<25209, 37327>>,   \* U+6279 U+91CF
         <<22823, 37327>>,   \* U+5927 U+91CF
         <<22810, 20010, 25991, 20214>> }],   \* U+591A U+4E2A U+6587 U+4EF6
      [category |-> "precise_operations",
       keywords |-> {
         <<102, 111, 114, 109, 97, 116, 32, 97, 108, 108>>,   \* format all
         <<97, 112, 112, 108, 121, 32, 115, 116, 121, 108, 101, 115>>,   \* apply styles
         <<101, 120, 97, 99, 116, 32, 102, 111, 114, 109, 97, 116, 116, 105, 110, 103>>,   \* exact formatting
         <<32479, 19968, 26684, 24335>>,   \* U+7EDF U+4E00 U+683C U+5F0F
         <<25209, 37327, 26684, 24335, 21270>> }],   \* U+6279 U+91CF U+683C U+5F0F U+5316
      [category |-> "file_operations",
       keywords |-> {
         <<115, 97, 118, 101, 32, 97, 115>>,   \* save as
         <<99, 111, 110, 118, 101, 114, 116>>,   \* convert
         <<101, 120, 112, 111, 114, 116>>,   \* export
         <<105, 109, 112, 111, 114, 116>>,   \* import
         <<20445, 23384, 20026>>,   \* U+4FDD U+5B58 U+4E3A
         <<36716, 25442>>,   \* U+8F6C U+6362
         <<23548, 20986>>,   \* U+5BFC U+51FA
         <<23548, 20837>> }],   \* U+5BFC U+5165
      [category |-> "repetitive_tasks",
       keywords |-> {
         <<97, 117, 116, 111, 109, 97, 116, 101>>,   \* automate
         <<114, 101, 112, 101, 97, 116>>,   \* repeat
         <<108, 111, 111, 112>>,   \* loop
         <<27599, 20010>>,   \* U+6BCF U+4E2A
         <<37325, 22797>>,   \* U+91CD U+590D
         <<33258, 21160, 21270>>,   \* U+81EA U+52A8 U+5316
         <<24490, 29615>> }]   \* U+5FAA U+73AF
    >>

\* self.fuzzy_strengths
fuzzy_strengths ==
    <<
      [category |-> "complex_data_cleaning",
       keywords |-> {
         <<102, 117, 122, 122, 121>>,   \* fuzzy
         <<99, 111, 109, 112, 108, 101, 120>>,   \* complex
         <<109, 101, 115, 115, 121, 32, 100, 97, 116, 97>>,   \* messy data
         <<105, 110, 99, 111, 110, 115, 105, 115, 116, 101, 110, 116>>,   \* inconsistent
         <<99, 108, 101, 97, 110, 32, 117, 112>>,   \* clean up
         <<110, 111, 114, 109, 97, 108, 105, 122, 101>>,   \* normalize
         <<22797, 26434>>,   \* U+590D U+6742
         <<27169, 31946>>,   \* U+6A21 U+7CCA
         <<28151, 20081, 25968, 25454>>,   \* U+6DF7 U+4E71 U+6570 U+636E
         <<19981, 19968, 33268>>,   \* U+4E0D U+4E00 U+81F4
         <<28165, 29702>>,   \* U+6E05 U+7406
         <<26631, 20934, 21270>> }],   \* U+6807 U+51C6 U+5316
      [category |-> "intelligent_extraction",
       keywords |-> {
         <<117, 110, 100, 101, 114, 115, 116, 97, 110, 100>>,   \* understand
         <<105, 110, 116, 101, 114, 112, 114, 101, 116>>,   \* interpret
         <<102, 105, 103, 117, 114, 101, 32, 111, 117, 116>>,   \* figure out
         <<115, 109, 97, 114, 116, 32, 101, 120, 116, 114, 97, 99, 116>>,   \* smart extract
         <<100, 101, 116, 101, 99, 116, 32, 112, 97, 116, 116, 101, 114, 110>>,   \* detect pattern
         <<29702, 35299>>,   \* U+7406 U+89E3
         <<35299, 37322>>,   \* U+89E3 U+91CA
         <<26234, 33021, 25552, 21462>>,   \* U+667A U+80FD U+63D0 U+53D6
         <<26816, 27979, 27169, 24335>>,   \* U+68C0 U+6D4B U+6A21 U+5F0F
         <<35782, 21035, 35268, 24459>> }],   \* U+8BC6 U+522B U+89C4 U+5F8B
      [category |-> "contextual_processing",
       keywords |-> {
         <<99, 111, 110, 116, 101, 120, 116>>,   \* context
         <<109, 101, 97, 110, 105, 110, 103>>,   \* meaning
         <<115, 101, 109, 97, 110, 116, 105, 99>>,   \* semantic
         <<117, 110, 100, 101, 114, 115, 116, 97, 110, 100, 32, 99, 111, 110, 116, 101, 110, 116>>,   \* understand content
         <<24773, 22659>>,   \* U+60C5 U+5883
         <<35821, 20041>>,   \* U+8BED U+4E49
         <<29702, 35299, 20869, 23481>>,   \* U+7406 U+89E3 U+5185 U+5BB9
         <<19978, 19979, 25991>> }],   \* U+4E0A U+4E0B U+6587
      [category |-> "adaptive_tasks",
       keywords |-> {
         <<102, 108, 101, 120, 105, 98, 108, 101>>,   \* flexible
         <<97, 100, 97, 112, 116>>,   \* adapt
         <<99, 97, 115, 101, 32, 98, 121, 32, 99, 97, 115, 101>>,   \* case by case
         <<100, 101, 112, 101, 110, 100, 115, 32, 111, 110>>,   \* depends on
         <<28789, 27963>>,   \* U+7075 U+6D3B
         <<36866, 24212>>,   \* U+9002 U+5E94
         <<20855, 20307, 24773, 20917>>,   \* U+5177 U+4F53 U+60C5 U+51B5
         <<26681, 25454, 24773, 20917>> }],   \* U+6839 U+636E U+60C5 U+51B5
      [category |-> "reasoning_required",
       keywords |-> {
         <<100, 101, 99, 105, 100, 101>>,   \* decide
         <<106, 117, 100, 103, 101>>,   \* judge
         <<100, 101, 116, 101, 114, 109, 105, 110, 101>>,   \* determine
         <<99, 104, 111, 111, 115, 101, 32, 98, 101, 115, 116>>,   \* choose best
         <<114, 101, 97, 115, 111, 110, 105, 110, 103>>,   \* reasoning
         <<21028, 26029>>,   \* U+5224 U+65AD
         <<20915, 23450>>,   \* U+51B3 U+5B9A
         <<25512, 29702>>,   \* U+63A8 U+7406
         <<36873, 25321, 26368, 20339>> }]   \* U+9009 U+62E9 U+6700 U+4F73
    >>

\* The categories of strengths with a keyword in user_lower, in dict order.
matched(strengths, user_lower) ==
    SelectSeq(strengths, LAMBDA entry : \E keyword \in entry.keywords : Contains(user_lower, keyword))

\* The names CapabilityRecommendation.__init__ takes besides self.
CapabilityRecommendation_parameters ==
    {"recommendation", "reason", "ai_score", "vba_score", "is_chinese"}

\* CapabilityRecommendation(**kwargs): the object, or TypeError when kwargs
\* names something __init__ does not take or leaves out something it needs.
CapabilityRecommendation(kwargs) ==
    IF DOMAIN kwargs = CapabilityRecommendation_parameters
    THEN [raised |-> "none", returned |-> kwargs]
    ELSE [raised |-> "TypeError", returned |-> None]

\* The recommendation and its reason for the matched categories.
recommend(ai_reasons, vba_reasons, fuzzy_reasons) ==
    IF 2 * Len(fuzzy_reasons) > 0 THEN <<"FUZZY_AI", fuzzy_reasons[1].category>>
    ELSE IF Len(ai_reasons) > Len(vba_reasons) THEN <<"AI", ai_reasons[1].category>>
    ELSE IF Len(vba_reasons) > Len(ai_reasons) THEN <<"VBA", vba_reasons[1].category>>
    ELSE <<"HYBRID", "mixed_capabilities">>

\* analyze_task: one point per matched AI and VBA category, two per matched
\* fuzzy category; the result is built by CapabilityRecommendation with the
\* keyword fuzzy_score among its arguments.
analyze_task(user_input) ==
    LET user_lower == Lower(user_input)
        ai_reasons == matched(ai_strengths, user_lower)
        vba_reasons == matched(vba_strengths, user_lower)
        fuzzy_reasons == matched(fuzzy_strengths, user_lower)
        r == recommend(ai_reasons, vba_reasons, fuzzy_reasons)
    IN  CapabilityRecommendation(
            [recommendation |-> r[1], reason |-> r[2], ai_score |-> Len(ai_reasons),
             vba_score |-> Len(vba_reasons), fuzzy_score |-> 2 * Len(fuzzy_reasons),
             is_chinese |-> detect_chinese(user_input)])

\* The texts analyze_task is called on.
TaskTexts ==
    {
      <<119, 114, 105, 116, 101, 32, 97, 32, 98, 117, 115, 105, 110, 101, 115, 115, 32, 112, 114, 111, 112, 111, 115, 97, 108>>,   \* write a business proposal
      <<24635, 32467, 25991, 26723, 20869, 23481>>,   \* U+603B U+7ED3 U+6587 U+6863 U+5185 U+5BB9
      <<98, 97, 116, 99, 104, 32, 112, 114, 111, 99, 101, 115, 115, 32, 49, 48, 48, 32, 69, 120, 99, 101, 108, 32, 102, 105, 108, 101, 115>>,   \* batch process 100 Excel files
      <<33258, 21160, 21270, 26684, 24335, 35774, 32622>>,   \* U+81EA U+52A8 U+5316 U+683C U+5F0F U+8BBE U+7F6E
      <<109, 97, 107, 101, 32, 116, 101, 120, 116, 32, 98, 105, 103, 103, 101, 114>>,   \* make text bigger
      <<97, 110, 97, 108, 121, 122, 101, 32, 100, 97, 116, 97, 32, 97, 110, 100, 32, 98, 97, 116, 99, 104, 32, 112, 114, 111, 99, 101, 115, 115, 32, 102, 105, 108, 101, 115>>,   \* analyze data and batch process files
      <<87, 114, 105, 116, 101, 32, 97, 110, 100, 32, 99, 108, 101, 97, 110, 32, 117, 112>>,   \* Write and clean up
      <<101, 120, 112, 111, 114, 116>> }   \* export

\* analyze_task(user_input)
AnalyzeTask(user_input) == PureCall("analyze_task", user_input, analyze_task(user_input))

\* The texts _simple_clean is called on.
CleanTexts ==
    {
      <<112, 108, 101, 97, 115, 101, 32, 104, 101, 108, 112, 32, 109, 101, 32, 20889, 25253, 21578>>,   \* "please help me U+5199 U+62A5 U+544A"
      <<35831, 24110, 25105, 32, 119, 114, 105, 116, 101>>,   \* "U+8BF7 U+5E2E U+6211  write"
      <<67, 97, 110, 32, 121, 111, 117, 32, 104, 101, 108, 112, 32, 109, 101, 32, 115, 111, 114, 116>>,   \* "Can you help me sort"
      <<35831, 24110, 25105, 20889>>,   \* "U+8BF7 U+5E2E U+6211 U+5199"
      <<32, 32, 105, 32, 119, 97, 110, 116, 32, 116, 111, 32, 103, 111>>,   \* "  i want to go"
      <<>>,   \* ""
      <<104, 101, 108, 108, 111>>,   \* "hello"
      <<25105, 24819, 35201>> }   \* "U+6211 U+60F3 U+8981"

\* _simple_clean(user_input)
SimpleClean(user_input) == PureCall("_simple_clean", user_input, simple_clean(user_input))

NextPure ==
    \/ \E text \in ShortTexts : DetectChinese(text)
    \/ \E text \in PromptTexts, mode \in PromptModes : GetPrompt(text, mode)
    \/ \E error \in ErrorTexts : FormatError(error)
    \/ \E content \in ReplyContents : CallApi(content)
    \/ \E user_input \in RequestTexts : OptimizeRequest(user_input)
    \/ \E initial_result, feedback \in RequestTexts :
           RefineRequest(initial_result, feedback)
    \/ \E user_input \in RequestTexts : OldOptimizeRequest(user_input)
    \/ \E user_input \in TaskTexts : AnalyzeTask(user_input)
    \/ \E user_input \in CleanTexts : SimpleClean(user_input)

SpecPure == Init /\ [][NextPure]_vars

\* ------------------------------------------------------------------------
\* SpecPrompts: the prompt routes of oipromot/routes/prompts.py, one request
\* at a time, over one database.  Each request builds a PromptService on the
\* session of the database and runs to its response; task[1] holds the latest
\* request: the route in op, its path and body in arg, the response in ret.
\* created_at is not part of the rows of the model.
\* ------------------------------------------------------------------------

\* The prompt_id of a request path: a primary key, or 0 for "non-existent-id".
PathIds == 0..MaxPrompts

\* The JSON bodies of POST and PUT: title "a", "b" or " ", content "x" or "".
PromptBodies ==
    { [content |-> c, title |-> t] : c \in { <<120>>, <<>> }, t \in { <<97>>, <<98>>, <<32>> } }

\* _validate_prompt_data: the exception it raises, "none" when it returns.
validate_prompt_data(prompt_data) ==
    IF ~Truthy(prompt_data.title) \/ ~Truthy(Strip(prompt_data.title)) THEN "ValidationError"
    ELSE IF ~Truthy(prompt_data.content) \/ ~Truthy(Strip(prompt_data.content))
        THEN "ValidationError"
    ELSE IF Len(prompt_data.title) > 255 THEN "ValidationError"
    ELSE IF Len(prompt_data.content) > 10000 THEN "ValidationError"
    ELSE "none"

\* Prompt.model_validate(prompt_data): the row, its id from uuid4.
Prompt(prompt_data, id) ==
    [content |-> prompt_data.content, id |-> id, title |-> prompt_data.title]

\* PromptResponse.model_validate(row): id, title and content of the row.
PromptResponse(row) == [content |-> row.content, id |-> row.id, title |-> row.title]

\* PromptRepository.create: add, commit, refresh.
repository_create(table, row) == [table EXCEPT ![row.id] = row]

\* PromptRepository.get_by_id: session.get(Prompt, prompt_id), None without a row.
repository_get_by_id(table, prompt_id) ==
    IF prompt_id \in DOMAIN table THEN table[prompt_id] ELSE None

\* PromptRepository.get_all: select(Prompt), the rows in no stated order.
repository_get_all(table) == { table[id] : id \in { k \in DOMAIN table : Truthy(table[k]) } }

\* PromptRepository.update: add, commit, refresh.
repository_update(table, row) == [table EXCEPT ![row.id] = row]

\* A delete that returns True and leaves the row in the table.
repository_delete_keeps_row(table, prompt_id) ==
    IF ~Truthy(repository_get_by_id(table, prompt_id))
    THEN [table |-> table, raised |-> "PromptNotFoundError"]
    ELSE [table |-> table, raised |-> "none"]

\* PromptRepository.delete: PromptNotFoundError without a row, else
\* session.delete and commit.
repository_delete(table, prompt_id) ==
    IF ~Truthy(repository_get_by_id(table, prompt_id))
    THEN [table |-> table, raised |-> "PromptNotFoundError"]
    ELSE [table |-> [table EXCEPT ![prompt_id] = None], raised |-> "none"]

\* PromptService.create_prompt with the id uuid4 returns next.
service_create_prompt(table, prompt_data, id) ==
    IF validate_prompt_data(prompt_data) # "none"
    THEN [table |-> table, raised |-> "ValidationError", returned |-> None]
    ELSE [table |-> repository_create(table, Prompt(prompt_data, id)), raised |-> "none",
          returned |-> PromptResponse(Prompt(prompt_data, id))]

\* PromptService.get_prompt.
service_get_prompt(table, prompt_id) ==
    IF ~Truthy(repository_get_by_id(table, prompt_id))
    THEN [table |-> table, raised |-> "PromptNotFoundError", returned |-> None]
    ELSE [table |-> table, raised |-> "none",
          returned |-> PromptResponse(repository_get_by_id(table, prompt_id))]

\* PromptService.get_all_prompts.
service_get_all_prompts(table) == { PromptResponse(row) : row \in repository_get_all(table) }

\* An update that stores the row whether or not the id has one.
service_update_prompt_upserts(table, prompt_id, prompt_data) ==
    IF validate_prompt_data(prompt_data) # "none"
    THEN [table |-> table, raised |-> "ValidationError", returned |-> None]
    ELSE [table |-> repository_update(table, Prompt(prompt_data, prompt_id)), raised |-> "none",
          returned |-> PromptResponse(Prompt(prompt_data, prompt_id))]

\* PromptService.update_prompt: validation first, then the lookup.
service_update_prompt(table, prompt_id, prompt_data) ==
    IF validate_prompt_data(prompt_data) # "none"
    THEN [table |-> table, raised |-> "ValidationError", returned |-> None]
    ELSE IF ~Truthy(repository_get_by_id(table, prompt_id))
    THEN [table |-> table, raised |-> "PromptNotFoundError", returned |-> None]
    ELSE [table |-> repository_update(table, Prompt(prompt_data, prompt_id)), raised |-> "none",
          returned |-> PromptResponse(Prompt(prompt_data, prompt_id))]

\* PromptService.delete_prompt: what the repository does.
service_delete_prompt(table, prompt_id) == repository_delete(table, prompt_id)

\* The status code of a route whose service call raised: 404, 400, or the
\* code of the route when nothing was raised.
status_code_of(raised, success) ==
    IF raised = "PromptNotFoundError" THEN 404
    ELSE IF raised = "ValidationError" THEN 400
    ELSE success

\* The response of a route to the request (op, arg), and the table after it.
Responded(op, arg, r, success, body) ==
    /\ task' = [task EXCEPT ![1] =
                   [IdleTask EXCEPT !.op = op, !.arg = arg,
                                    !.ret = [body |-> IF r.raised = "none" THEN body ELSE None,
                                             status_code |-> status_code_of(r.raised, success)]]]
    /\ prompt' = r.table
    /\ UNCHANGED <<sm, sessions, active_connections, conn, hist, scenario, last,
                   favoritecommand>>

\* POST /: 201 and the stored prompt, 400 on a body that fails validation.
CreatePrompt(prompt_data) ==
    /\ uuids < MaxPrompts
    /\ LET r == service_create_prompt(prompt, prompt_data, uuids + 1)
       IN  /\ Responded("create_prompt", prompt_data, r, 201, r.returned)
           /\ uuids' = IF r.raised = "none" THEN uuids + 1 ELSE uuids
    /\ UNCHANGED deleted

\* GET /: 200 and every stored prompt.
GetPrompts ==
    /\ Responded("get_prompts", None, [table |-> prompt, raised |-> "none"], 200,
                 service_get_all_prompts(prompt))
    /\ UNCHANGED <<uuids, deleted>>

\* GET /{prompt_id}: 200 and the prompt, 404 without a row.
GetPromptById(prompt_id) ==
    /\ LET r == service_get_prompt(prompt, prompt_id)
       IN  Responded("get_prompt", prompt_id, r, 200, r.returned)
    /\ UNCHANGED <<uuids, deleted>>

\* PUT /{prompt_id}: 200 and the updated prompt, 400 or 404.
UpdatePrompt(prompt_id, prompt_data) ==
    /\ LET r == service_update_prompt(prompt, prompt_id, prompt_data)
       IN  Responded("update_prompt", <<prompt_id, prompt_data>>, r, 200, r.returned)
    /\ UNCHANGED <<uuids, deleted>>

\* DELETE /{prompt_id}: 204 and no body, 404 without a row.
DeletePrompt(prompt_id) ==
    /\ LET r == service_delete_prompt(prompt, prompt_id)
       IN  /\ Responded("delete_prompt", prompt_id, r, 204, None)
           /\ deleted' = IF r.raised = "none" THEN deleted \cup {prompt_id} ELSE deleted
    /\ UNCHANGED uuids

\* The provider an AIService holds: whether its is_available() answers True.
\* AIService.__init__ raises when no provider can be built, so there is one.
Providers == { [available |-> TRUE], [available |-> FALSE] }

\* The message query parameter: "", " " and "hi".
ChatMessages == { <<>>, <<32>>, <<104, 105>> }

\* What the provider's process_message does with a message: it returns the
\* reply "ok", or it raises.
ProviderOutcomes == { "reply", "raise" }

\* AIService.is_available
is_available(provider) == Truthy(provider) /\ provider.available

\* AIService.process_message: AIServiceError without a provider, on a message
\* that is empty or blank, and in place of whatever the provider raises.
process_message(provider, message, outcome) ==
    IF ~Truthy(provider) THEN [raised |-> "AIServiceError", returned |-> None]
    ELSE IF message = <<>> \/ Strip(message) = <<>>
         THEN [raised |-> "AIServiceError", returned |-> None]
    ELSE IF outcome = "raise" THEN [raised |-> "AIServiceError", returned |-> None]
    ELSE [raised |-> "none", returned |-> <<111, 107>>]

\* The classes `except Exception` catches, of those raised in chat_with_ai:
\* fastapi's HTTPException and AIServiceError both derive from Exception.
Exception == { "HTTPException", "AIServiceError" }

\* chat_with_ai: the try block raises HTTPException(503) when the service is
\* not available, else it awaits process_message; the except clause answers
\* whatever the try block raised with HTTPException(500).
chat_with_ai(provider, message, outcome) ==
    LET tried == IF ~is_available(provider)
                 THEN [raised |-> "HTTPException", returned |-> 503]
                 ELSE process_message(provider, message, outcome)
    IN  IF tried.raised \in Exception
        THEN [body |-> None, status_code |-> 500]
        ELSE IF tried.raised = "HTTPException"
        THEN [body |-> None, status_code |-> tried.returned]
        ELSE [body |-> [response |-> tried.returned], status_code |-> 200]

\* POST /chat
ChatWithAi(provider, message, outcome) ==
    /\ task' = [task EXCEPT ![1] =
                   [IdleTask EXCEPT !.op = "chat_with_ai",
                                    !.arg = <<provider, message, outcome>>,
                                    !.ret = chat_with_ai(provider, message, outcome)]]
    /\ UNCHANGED <<sm, sessions, active_connections, conn, hist, scenario, last, dbvars>>

NextPrompts ==
    \/ \E prompt_data \in PromptBodies : CreatePrompt(prompt_data)
    \/ GetPrompts
    \/ \E prompt_id \in PathIds : GetPromptById(prompt_id)
    \/ \E prompt_id \in PathIds, prompt_data \in PromptBodies : UpdatePrompt(prompt_id, prompt_data)
    \/ \E prompt_id \in PathIds : DeletePrompt(prompt_id)
    \/ \E provider \in Providers, message \in ChatMessages, outcome \in ProviderOutcomes :
           ChatWithAi(provider, message, outcome)

SpecPrompts == Init /\ [][NextPrompts]_vars

\* ------------------------------------------------------------------------
\* SpecFavorites: the favorite routes of web_app.py, one request at a time,
\* each made by a user require_auth_jwt has authenticated.  task[1] holds the
\* latest request: the route in op, <<user, path id or form command>> in arg,
\* the response in ret.  description, category and the two timestamps of a
\* row are stored and returned as given and are not part of the rows here.
\* ------------------------------------------------------------------------

\* user.id of the users that make requests.
UserIds == {1, 2}

\* The favorite_id of a request path: a primary key, or 0 for an id that no
\* row ever had.
PathFavoriteIds == 0..MaxFavorites

\* The command texts of the forms: "a" and "b".
Commands == { <<97>>, <<98>> }

\* FavoriteCommand(...): the row.
FavoriteCommand(id, user_id, command) == [id |-> id, user_id |-> user_id, command |-> command]

\* select(FavoriteCommand).where(id == favorite_id, user_id == user_id).first()
select_favorite(table, favorite_id, user_id) ==
    IF /\ favorite_id \in DOMAIN table
       /\ Truthy(table[favorite_id])
       /\ table[favorite_id].user_id = user_id
    THEN table[favorite_id]
    ELSE None

\* DatabaseManager.create_favorite_command: add, commit, refresh.
create_favorite_command(table, id, user_id, command) ==
    [table EXCEPT ![id] = FavoriteCommand(id, user_id, command)]

\* DatabaseManager.get_user_favorite_commands: the rows of user_id, ordered by
\* created_at descending, the newest primary key first.
get_user_favorite_commands(table, user_id) ==
    LET newest_first == [i \in 1..Len(table) |-> Len(table) + 1 - i]
        ids == SelectSeq(newest_first,
                         LAMBDA id : Truthy(table[id]) /\ table[id].user_id = user_id)
    IN  [i \in 1..Len(ids) |-> table[ids[i]]]

\* DatabaseManager.get_favorite_command_by_id
get_favorite_command_by_id(table, favorite_id, user_id) ==
    select_favorite(table, favorite_id, user_id)

\* DatabaseManager.update_favorite_command: the row of that id and user gets
\* the command unless it is None; no row, None is returned.
update_favorite_command(table, favorite_id, user_id, command) ==
    LET favorite == select_favorite(table, favorite_id, user_id)
        updated == IF command # None THEN [favorite EXCEPT !.command = command] ELSE favorite
    IN  IF Truthy(favorite)
        THEN [table |-> [table EXCEPT ![favorite_id] = updated], returned |-> updated]
        ELSE [table |-> table, returned |-> None]

\* A delete that looks the row up by its id alone.
delete_favorite_command_of_anyone(table, favorite_id, user_id) ==
    IF favorite_id \in DOMAIN table /\ Truthy(table[favorite_id])
    THEN [table |-> [table EXCEPT ![favorite_id] = None], returned |-> TRUE]
    ELSE [table |-> table, returned |-> FALSE]

\* DatabaseManager.delete_favorite_command: True when the row of that id and
\* user was deleted, False without one.
delete_favorite_command(table, favorite_id, user_id) ==
    IF Truthy(select_favorite(table, favorite_id, user_id))
    THEN [table |-> [table EXCEPT ![favorite_id] = None], returned |-> TRUE]
    ELSE [table |-> table, returned |-> FALSE]

\* DatabaseManager.check_favorite_exists
check_favorite_exists(table, user_id, command) ==
    \E id \in DOMAIN table :
        Truthy(table[id]) /\ table[id].user_id = user_id /\ table[id].command = command

\* The JSON object the routes return for a row.
favorite_json(favorite) == [id |-> favorite.id, command |-> favorite.command]

\* The response of a favorite route to the request (op, arg), and the table
\* after it.
FavoriteResponded(op, arg, table, status_code, body) ==
    /\ task' = [task EXCEPT ![1] =
                   [IdleTask EXCEPT !.op = op, !.arg = arg,
                                    !.ret = [body |-> body, status_code |-> status_code]]]
    /\ favoritecommand' = table
    /\ UNCHANGED <<sm, sessions, active_connections, conn, hist, scenario, last,
                   prompt, deleted>>

\* POST /api/favorites: 400 when the user has the command already, else the
\* new row.
CreateFavoriteCommand(user, command) ==
    /\ uuids < MaxFavorites
    /\ IF check_favorite_exists(favoritecommand, user, command)
       THEN /\ FavoriteResponded("create_favorite_command", <<user, command>>,
                                 favoritecommand, 400, None)
            /\ UNCHANGED uuids
       ELSE /\ FavoriteResponded("create_favorite_command", <<user, command>>,
                                 create_favorite_command(favoritecommand, uuids + 1, user, command),
                                 200, favorite_json(FavoriteCommand(uuids + 1, user, command)))
            /\ uuids' = uuids + 1

\* GET /api/favorites
GetFavoriteCommands(user) ==
    /\ LET favorites == get_user_favorite_commands(favoritecommand, user)
       IN  FavoriteResponded("get_favorite_commands", <<user>>, favoritecommand, 200,
                             [i \in 1..Len(favorites) |-> favorite_json(favorites[i])])
    /\ UNCHANGED uuids

\* GET /api/favorites/{favorite_id}
GetFavoriteCommand(user, favorite_id) ==
    /\ LET favorite == get_favorite_command_by_id(favoritecommand, favorite_id, user)
       IN  IF ~Truthy(favorite)
           THEN FavoriteResponded("get_favorite_command", <<user, favorite_id>>,
                                  favoritecommand, 404, None)
           ELSE FavoriteResponded("get_favorite_command", <<user, favorite_id>>,
                                  favoritecommand, 200, favorite_json(favorite))
    /\ UNCHANGED uuids

\* PUT /api/favorites/{favorite_id}
UpdateFavoriteCommand(user, favorite_id, command) ==
    /\ LET r == update_favorite_command(favoritecommand, favorite_id, user, command)
       IN  IF ~Truthy(r.returned)
           THEN FavoriteResponded("update_favorite_command", <<user, favorite_id, command>>,
                                  r.table, 404, None)
           ELSE FavoriteResponded("update_favorite_command", <<user, favorite_id, command>>,
                                  r.table, 200, favorite_json(r.returned))
    /\ UNCHANGED uuids

\* DELETE /api/favorites/{favorite_id}: 404 without such a row of the user,
\* else a message that the favorite was deleted.
DeleteFavoriteCommand(user, favorite_id) ==
    /\ LET r == delete_favorite_command(favoritecommand, favorite_id, user)
       IN  IF ~r.returned
           THEN FavoriteResponded("delete_favorite_command", <<user, favorite_id>>,
                                  r.table, 404, None)
           ELSE FavoriteResponded("delete_favorite_command", <<user, favorite_id>>,
                                  r.table, 200, [message |-> "deleted"])
    /\ UNCHANGED uuids

NextFavorites ==
    \/ \E user \in UserIds, command \in Commands : CreateFavoriteCommand(user, command)
    \/ \E user \in UserIds : GetFavoriteCommands(user)
    \/ \E user \in UserIds, favorite_id \in PathFavoriteIds : GetFavoriteCommand(user, favorite_id)
    \/ \E user \in UserIds, favorite_id \in PathFavoriteIds, command \in Commands \cup {None} :
           UpdateFavoriteCommand(user, favorite_id, command)
    \/ \E user \in UserIds, favorite_id \in PathFavoriteIds :
           DeleteFavoriteCommand(user, favorite_id)

SpecFavorites == Init /\ [][NextFavorites]_vars

\* ------------------------------------------------------------------------
\* Claims
\* ------------------------------------------------------------------------

\* A call of t that reached the chat-completion call and has returned.
CallEnded(t) == task[t].pc = "idle" /\ Truthy(task[t].outcome)

\* The chat-completion call of that call failed: it raised, or the reply
\* carried no content and _call_api raised on it.
CallFailed(t) == CallEnded(t) /\ task[t].outcome.kind # "content"

\* C1: for every input text and every outcome of the chat-completion call,
\* an exception raised by the client included, optimize_requirement returns a
\* Success-shaped result (a result text, a response time and a mode label, no
\* error) and raises nothing.
C1_OptimizeAlwaysSuccess ==
    \A t \in DOMAIN task :
        (task[t].op = "start_session" /\ IsStr(task[t].arg) /\ task[t].pc = "idle")
        => /\ task[t].raised = "none"
           /\ {"result", "response_time", "mode"} \subseteq DOMAIN task[t].optret
           /\ "error" \notin DOMAIN task[t].optret

\* C2: a session is in WAITING_FEEDBACK only if the optimize or refine call
\* that ended last on it returned a Success, and a call that returns a Failure
\* leaves the status ERROR when the operation returns.
C2_WaitingOnlyAfterSuccess ==
    /\ \A o \in Objs :
           ("status" \in DOMAIN sm[o] /\ sm[o].status = "WAITING_FEEDBACK")
           => hist[o].last = "success"
    /\ "error" \in DOMAIN last.call.optret => last.call.status_at_return = "ERROR"

\* C2 witness: one session waits for feedback while a call on another has
\* just returned a Failure.
C2_Witness ==
    /\ \E o \in Objs : "status" \in DOMAIN sm[o] /\ sm[o].status = "WAITING_FEEDBACK"
    /\ "error" \in DOMAIN last.call.optret
    /\ \E o \in Objs : "status" \in DOMAIN sm[o] /\ sm[o].status = "ERROR"
                       /\ hist[o].last = "failure"

\* C3: no request is begun on a session while an earlier request on it is
\* still in progress: two coroutines are never inside a call on the same
\* SessionManager at once.
C3_OneRequestPerSession ==
    \A c1, c2 \in Conns :
        (c1 # c2 /\ task[c1].pc = "api" /\ task[c2].pc = "api")
        => task[c1].obj # task[c2].obj

\* C4: an event handled for one connection never replaces, deletes or changes
\* the session another connection uses.
C4_NoCrossConnectionEffect ==
    [][\A c \in Conns :
          (c # last'.conn /\ conn[c].state # "free")
          => /\ sessions'[conn[c].sid] = sessions[conn[c].sid]
             /\ (sessions[conn[c].sid] # 0
                 => sm'[sessions[conn[c].sid]] = sm[sessions[conn[c].sid]])]_vars

C6_RefineFallback ==
    \A t \in DOMAIN task :
        (task[t].op = "handle_feedback" /\ CallFailed(t))
        => /\ "result" \in DOMAIN task[t].optret
           /\ StartsWith(task[t].optret.result, task[t].initial_result)
           /\ LET note == Strip(DropFirst(task[t].optret.result,
                                          Len(task[t].initial_result)))
              IN  /\ StartsWith(note, <<91>>)
                  /\ note # <<>> /\ note[Len(note)] = 93
                  /\ Contains(note, task[t].arg)

\* C7: when the client raises a connection error, optimize_requirement returns
\* a Success whose mode label is the fallback label and whose text is the
\* deterministic cleanup of the input.
C7_FallbackOnConnectionError ==
    \A t \in DOMAIN task :
        (/\ task[t].op = "start_session"
         /\ CallEnded(t)
         /\ task[t].outcome.kind = "raise"
         /\ Contains(Lower(task[t].outcome.error),
                     <<99, 111, 110, 110, 101, 99, 116, 105, 111, 110>>))
        => /\ "error" \notin DOMAIN task[t].optret
           /\ "mode" \in DOMAIN task[t].optret
           /\ task[t].optret.mode = <<22238, 36864, 27169, 24335>>
           /\ task[t].optret.result = simple_clean(task[t].arg)

\* The feedback texts that are reset commands: "/n", "n", "/N", "N".
ResetCommands == { <<47, 110>>, <<110>>, <<47, 78>>, <<78>> }

\* C8: whatever the status and the stored texts, handle_feedback of "/n" or
\* "n" in either case does what reset_session does: both stored texts empty,
\* status IDLE, a result of type new_conversation, and no optimizer call.
C8_ResetCommandIsReset ==
    \A t \in DOMAIN task :
        (\/ task[t].op = "handle_feedback" /\ task[t].arg \in ResetCommands
         \/ task[t].op = "reset_session")
        => /\ task[t].pc = "idle"
           /\ ~Truthy(task[t].req)
           /\ ~Truthy(task[t].optret)
           /\ task[t].raised = "none"
           /\ sm[task[t].obj] = [current_requirement |-> <<>>,
                                 current_feedback |-> <<>>,
                                 status |-> "IDLE"]
           /\ task[t].ret = [type |-> "new_conversation",
                             content |-> <<24320, 22987, 26032, 23545, 35805>>]

\* C8 witness: handle_feedback("N") was called on a session in ERROR that
\* held a requirement and a feedback.
C8_Witness ==
    \E t \in DOMAIN task :
        /\ task[t].op = "handle_feedback"
        /\ task[t].arg = <<78>>
        /\ task[t].from = "ERROR"
        /\ hist[task[t].obj].op = "handle_feedback"
        /\ task[t].ret.type = "new_conversation"

\* C9: a request begun on a session in ERROR resubmits the kind of input that
\* failed: after a failed start_session it is a start_session, after a failed
\* handle_feedback a handle_feedback.
C9_RetrySameKind ==
    [][\A c \in Conns :
          (/\ task[c].pc = "idle"
           /\ task'[c].pc = "api"
           /\ sm[task'[c].obj].status = "ERROR")
          => task'[c].op = hist[task'[c].obj].op]_vars

\* C10: with a client that always succeeds, on a fresh session start_session
\* ends in WAITING_FEEDBACK with type ai_response; a feedback that is no
\* command then ends in WAITING_FEEDBACK with type ai_response_refined;
\* handle_feedback("/n") then ends in IDLE with type new_conversation and both
\* stored texts empty.
C10_Scenario ==
    task[1].pc = "idle"
    => /\ scenario = "started"
          => /\ sm[1].status = "WAITING_FEEDBACK"
             /\ task[1].ret.type = "ai_response"
       /\ scenario = "refined"
          => /\ sm[1].status = "WAITING_FEEDBACK"
             /\ task[1].ret.type = "ai_response_refined"
       /\ scenario = "reset"
          => /\ sm[1].status = "IDLE"
             /\ sm[1].current_requirement = <<>>
             /\ sm[1].current_feedback = <<>>
             /\ task[1].ret.type = "new_conversation"

\* C10 witness: the three steps were made in order.
C10_Witness == scenario = "reset" /\ task[1].op = "handle_feedback" /\ sm[1].status = "IDLE"

\* C11: an exception raised while a client frame is handled is caught and
\* reported: the client is sent a result of type error, and the connection and
\* its session are still there for the next frame.
C11_ExceptionReported ==
    last.call.raised # "none"
    => /\ Truthy(last.call.ret)
       /\ last.call.ret.type = "error"
       /\ conn[last.conn].state = "open"
       /\ sessions[conn[last.conn].sid] # 0

\* The error kinds in their priority order.
ErrorKinds ==
    <<"Connection", "Authentication", "RateLimit", "Model", "Server", "ResponseFormat",
      "Unknown">>

\* The kind an error_type label of the code stands for.
KindOfLabel(label) ==
    CASE label = <<36830, 25509, 38169, 35823>> -> "Connection"
      [] label = <<35748, 35777, 38169, 35823>> -> "Authentication"
      [] label = <<39057, 29575, 38480, 21046>> -> "RateLimit"
      [] label = <<27169, 22411, 38169, 35823>> -> "Model"
      [] label = <<26381, 21153, 22120, 38169, 35823>> -> "Server"
      [] label = <<21709, 24212, 26684, 24335, 38169, 35823>> -> "ResponseFormat"
      [] label = <<26410, 30693, 38169, 35823>> -> "Unknown"

\* Whether the lower-cased text s carries the keywords of a kind.
KindMatches(kind, s) ==
    CASE kind = "Connection" ->
             \/ Contains(s, <<99, 111, 110, 110, 101, 99, 116, 105, 111, 110>>)
             \/ Contains(s, <<116, 105, 109, 101, 111, 117, 116>>)
             \/ Contains(s, <<110, 101, 116, 119, 111, 114, 107>>)
      [] kind = "Authentication" ->
             \/ Contains(s, <<117, 110, 97, 117, 116, 104, 111, 114, 105, 122, 101, 100>>)
             \/ Contains(s, <<52, 48, 49>>)
             \/ Contains(s, <<97, 112, 105, 32, 107, 101, 121>>)
      [] kind = "RateLimit" ->
             \/ Contains(s, <<114, 97, 116, 101, 32, 108, 105, 109, 105, 116>>)
             \/ Contains(s, <<52, 50, 57>>)
      [] kind = "Model" ->
             /\ Contains(s, <<109, 111, 100, 101, 108>>)
             /\ \/ Contains(s, <<110, 111, 116, 32, 102, 111, 117, 110, 100>>)
                \/ Contains(s, <<52, 48, 52>>)
      [] kind = "Server" ->
             \/ Contains(s, <<53, 48, 48>>)
             \/ Contains(s, <<53, 48, 50>>)
             \/ Contains(s, <<53, 48, 51>>)
      [] kind = "ResponseFormat" ->
             \/ Contains(s, <<106, 115, 111, 110>>)
             \/ Contains(s, <<112, 97, 114, 115, 101>>)
      [] kind = "Unknown" -> TRUE

\* C12: the kind _format_error gives is the first kind, in the order
\* Connection, Authentication, Rate limit, Model, Server, Response format,
\* Unknown, whose keywords occur in the lower-cased text; "401 Unauthorized"
\* is Authentication and "Connection timed out" is Connection, also inside a
\* longer text that matches no earlier kind.
C12_FirstMatchWins ==
    task[1].op = "_format_error"
    => LET text == task[1].arg
           kind == KindOfLabel(task[1].ret.type)
       IN  /\ \E i \in 1..Len(ErrorKinds) :
                  /\ ErrorKinds[i] = kind
                  /\ KindMatches(kind, Lower(text))
                  /\ \A j \in 1..(i - 1) : ~KindMatches(ErrorKinds[j], Lower(text))
           /\ Contains(text, <<67, 111, 110, 110, 101, 99, 116, 105, 111, 110, 32, 116, 105, 109, 101, 100, 32, 111, 117, 116>>) => kind = "Connection"
           /\ (/\ Contains(text, <<52, 48, 49, 32, 85, 110, 97, 117, 116, 104, 111, 114, 105, 122, 101, 100>>)
               /\ ~KindMatches("Connection", Lower(text)))
              => kind = "Authentication"
           /\ kind = "Unknown" => task[1].ret.message = text

\* C12 witness: a text with keywords of three kinds ("429: Connection timed
\* out" matches Connection and Rate limit) got the earliest one.
C12_Witness ==
    /\ task[1].op = "_format_error"
    /\ task[1].arg = <<52, 50, 57, 58, 32, 67, 111, 110, 110, 101, 99, 116, 105, 111, 110, 32, 116, 105, 109, 101, 100, 32, 111, 117, 116>>
    /\ KindOfLabel(task[1].ret.type) = "Connection"

\* C13: every chat-completion request carries an explicit timeout, and a call
\* that timed out is reported as a Connection failure.
C13_TimeoutIsConnection ==
    \A t \in DOMAIN task :
        /\ task[t].pc = "api" => "timeout" \in DOMAIN task[t].req
        /\ (CallEnded(t) /\ task[t].outcome = TimedOut)
           => /\ "error_type" \in DOMAIN task[t].optret
              /\ KindOfLabel(task[t].optret.error_type) = "Connection"

\* C14: when the endpoint's reply is the text X, with or without whitespace
\* around it and a <think>...</think> block before it, _call_api yields
\* exactly X.
C14_ReplyStripped ==
    task[1].op = "_call_api"
    => \A pre \in ReplySpaces, th \in ThinkBlocks, mid \in ReplySpaces,
          x \in ReplyTexts, post \in ReplySpaces :
           task[1].arg = pre \o th \o mid \o x \o post
           => task[1].ret.result = x

\* The latest call built a chat-completion request, held in ret.
RequestBuilt ==
    task[1].op \in {"optimize_request", "refine_request", "old_optimize_request"}

\* C15: every chat-completion request an optimizer builds, for optimize and
\* for refine and for every user text, carries enable_thinking = false.
C15_ThinkingDisabled ==
    RequestBuilt => task[1].ret.extra_body.enable_thinking = FALSE

\* C16: refine_requirement(prior_result, feedback) picks the Chinese refinement
\* prompt and the Chinese wording of the user message exactly when feedback
\* holds a character in U+4E00..U+9FFF, whatever the language of prior_result.
C16_LanguageFromFeedback ==
    task[1].op = "refine_request"
    => LET feedback == task[1].arg[2]
           zh == \E i \in 1..Len(feedback) : feedback[i] \in 19968..40959
           system == task[1].ret.messages[1].content
           user == task[1].ret.messages[2].content
       IN  /\ system = IF zh THEN prompt_refinement_zh ELSE prompt_refinement_en
           /\ zh <=> StartsWith(user, <<20043, 21069, 30340, 38656, 27714, 25551, 36848, 65306>>)
           /\ ~zh <=> StartsWith(user, <<80, 114, 101, 118, 105, 111, 117, 115, 32, 114, 101, 113, 117, 105, 114, 101, 109, 101, 110, 116, 32, 100, 101, 115, 99, 114, 105, 112, 116, 105, 111, 110, 58, 32>>)

\* C16 witness: a Chinese prior result refined with an English feedback got
\* the English prompt.
C16_Witness ==
    /\ task[1].op = "refine_request"
    /\ task[1].arg = << <<20320, 22909>>, <<104, 105>> >>
    /\ task[1].ret.messages[1].content = prompt_refinement_en

\* C17: the stored original requirement changes only in start_session(text),
\* which sets it to text and empties the stored feedback, and in a reset,
\* which empties both; handle_feedback(f) with f a text that is no command
\* stores f as feedback, leaves the requirement alone and hands that stored
\* requirement together with f to refine_requirement.
C17_RequirementFrame ==
    [][/\ sm'[1].current_requirement # sm[1].current_requirement
          => \/ /\ task[1].pc = "idle"
                /\ task'[1].op = "start_session"
                /\ sm'[1].current_requirement = task'[1].arg
                /\ sm'[1].current_feedback = <<>>
             \/ /\ task[1].pc = "idle"
                /\ task'[1].ret = reset_session.envelope
                /\ sm'[1].current_requirement = <<>>
                /\ sm'[1].current_feedback = <<>>
       /\ (task[1].pc = "idle" /\ task'[1].pc = "api" /\ task'[1].op = "start_session")
          => /\ sm'[1].current_requirement = task'[1].arg
             /\ sm'[1].current_feedback = <<>>
       /\ (task[1].pc = "idle" /\ task'[1].pc = "api" /\ task'[1].op = "handle_feedback")
          => /\ sm'[1].current_feedback = task'[1].arg
             /\ sm'[1].current_requirement = sm[1].current_requirement
             /\ task'[1].initial_result = sm[1].current_requirement
             /\ task'[1].req.messages[2].content
                    = refine_user_message(sm[1].current_requirement, task'[1].arg)]_vars

\* C17 witness: a second feedback is being refined; the call was handed the
\* requirement of start_session, which is still stored.
C17_Witness ==
    /\ task[1].pc = "api"
    /\ task[1].op = "handle_feedback"
    /\ hist[1] = [op |-> "handle_feedback", last |-> "success"]
    /\ sm[1].current_requirement = <<104, 105>>
    /\ task[1].initial_result = <<104, 105>>
    /\ sm[1].current_feedback = task[1].arg
    /\ task[1].arg # <<104, 105>>

\* C18: _detect_chinese(s) is true exactly when s holds a character in
\* U+4E00..U+9FFF: never for the empty text or a text of ASCII characters,
\* and always once one such character occurs, however many others there are.
C18_ChineseIffCJK ==
    task[1].op = "_detect_chinese"
    => LET s == task[1].arg
       IN  /\ task[1].ret \in BOOLEAN
           /\ task[1].ret <=> \E i \in 1..Len(s) : s[i] \in 19968..40959
           /\ s = <<>> => ~task[1].ret
           /\ (\A i \in 1..Len(s) : s[i] < 128) => ~task[1].ret
           /\ (\E i \in 1..Len(s) : s[i] \in {19968, 40959}) => task[1].ret

\* C18 witness: "aa" followed by U+4E00 is Chinese.
C18_Witness ==
    /\ task[1].op = "_detect_chinese"
    /\ task[1].arg = <<97, 97, 19968>>
    /\ task[1].ret = TRUE

\* The language of a text as the prompt selection sees it.
LanguageOf(text) ==
    IF \E i \in 1..Len(text) : text[i] \in 19968..40959 THEN "zh" ELSE "en"

\* C19: the system prompt depends on (mode, language) only: a _get_prompt call
\* that follows another with the same mode returns the same prompt when the
\* languages of the two texts agree, and a different one when they differ.
C19_PromptByModeAndLanguage ==
    (task[1].op = "_get_prompt" /\ last.call.op = "_get_prompt"
        /\ task[1].arg[2] = last.call.arg[2])
    => IF LanguageOf(task[1].arg[1]) = LanguageOf(last.call.arg[1])
       THEN task[1].ret = last.call.ret
       ELSE task[1].ret # last.call.ret

\* C19 witness: the optimization prompt was asked for "ni hao" and then for
\* "hi".
C19_Witness ==
    /\ task[1].op = "_get_prompt"
    /\ last.call.op = "_get_prompt"
    /\ last.call.arg = << <<20320, 22909>>, "optimization" >>
    /\ task[1].arg = << <<104, 105>>, "optimization" >>
    /\ task[1].ret # last.call.ret

\* C20: once DELETE of a created prompt was answered 204, every later GET of
\* its id is answered 404 and no later list of all prompts holds it; the
\* DELETE leaves every other row of the table as it was.
C20_DeletedStaysGone ==
    [][ /\ \A id \in deleted' :
            /\ (task'[1].op = "get_prompt" /\ task'[1].arg = id)
                   => task'[1].ret.status_code = 404
            /\ task'[1].op = "get_prompts"
                   => \A item \in task'[1].ret.body : item.id # id
        /\ (task'[1].op = "delete_prompt" /\ task'[1].ret.status_code = 204)
               => \A id \in PromptIds \ {task'[1].arg} : prompt'[id] = prompt[id]
      ]_vars

\* C20 witness: GET of a deleted prompt's id was answered 404 while another
\* prompt is still stored.
C20_Witness ==
    /\ task[1].op = "get_prompt"
    /\ task[1].arg \in deleted
    /\ task[1].ret.status_code = 404
    /\ \E id \in PromptIds : Truthy(prompt[id])

\* The latest request was addressed to prompt_id: GET or DELETE of it, or PUT
\* of it with a body that passes validation.
AddressedTo(tk, prompt_id) ==
    \/ tk.op \in {"get_prompt", "delete_prompt"} /\ tk.arg = prompt_id
    \/ /\ tk.op = "update_prompt"
       /\ tk.arg[1] = prompt_id
       /\ validate_prompt_data(tk.arg[2]) = "none"

\* C21: GET, PUT with a valid body and DELETE of an id that has no stored
\* prompt are each answered 404 and leave the table of prompts as it was.
C21_MissingIdIs404 ==
    [][ \A prompt_id \in PathIds :
            (~Truthy(repository_get_by_id(prompt, prompt_id)) /\ AddressedTo(task'[1], prompt_id))
                => task'[1].ret.status_code = 404 /\ prompt' = prompt
      ]_vars

\* C21 witness: PUT with a valid body of an id without a row was answered 404
\* while a prompt is stored.
C21_Witness ==
    /\ task[1].op = "update_prompt"
    /\ validate_prompt_data(task[1].arg[2]) = "none"
    /\ ~Truthy(repository_get_by_id(prompt, task[1].arg[1]))
    /\ task[1].ret.status_code = 404
    /\ \E id \in PromptIds : Truthy(prompt[id])

\* C22: analyze_task returns, for every text, a recommendation set by the
\* keyword scores: AI when the AI score is the greater, VBA when the VBA score
\* is the greater, HYBRID with reason mixed_capabilities when no keyword of any
\* category is in the text.
C22_RecommendationByScores ==
    task[1].op = "analyze_task" =>
        LET user_lower == Lower(task[1].arg)
            ai_score == Len(matched(ai_strengths, user_lower))
            vba_score == Len(matched(vba_strengths, user_lower))
            fuzzy_score == Len(matched(fuzzy_strengths, user_lower))
            result == task[1].ret.returned
        IN  /\ task[1].ret.raised = "none"
            /\ ai_score > vba_score => result.recommendation = "AI"
            /\ vba_score > ai_score => result.recommendation = "VBA"
            /\ (ai_score = 0 /\ vba_score = 0 /\ fuzzy_score = 0)
                   => result.recommendation = "HYBRID" /\ result.reason = "mixed_capabilities"

\* The step is the coroutine of c handling a user_input frame by a call of
\* start_session or handle_feedback.
UserInputStep(c) ==
    /\ task[c].pc = "idle"
    /\ last'.conn = c
    /\ \/ task'[c].pc = "api"
       \/ last'.call.op \in {"start_session", "handle_feedback"}

\* The call that step made: still at its chat-completion call, or returned.
CallMade(c) == IF task'[c].pc = "api" THEN task'[c] ELSE last'.call

\* C23: a user_input text goes to start_session exactly when the status of
\* the session is IDLE and to handle_feedback in every other status; a
\* feedback that reaches the optimizer refines the requirement the session
\* stored.
C23_DispatchByStatus ==
    [][ \A c \in Conns :
            UserInputStep(c) =>
                LET o == sessions[conn[c].sid]
                IN  /\ CallMade(c).op = "start_session" <=> sm[o].status = "IDLE"
                    /\ CallMade(c).op = "handle_feedback" <=> sm[o].status # "IDLE"
                    /\ (CallMade(c).op = "handle_feedback" /\ task'[c].pc = "api")
                           => task'[c].initial_result = sm[o].current_requirement
      ]_vars

\* C23 witness: a text sent after the last call on the session failed is at
\* its chat-completion call as feedback on the stored requirement.
C23_Witness ==
    \E c \in Conns :
        /\ task[c].pc = "api"
        /\ task[c].op = "handle_feedback"
        /\ hist[task[c].obj].last = "failure"
        /\ task[c].initial_result = sm[task[c].obj].current_requirement
        /\ Truthy(task[c].initial_result)

\* The English and the Chinese entries of filler_patterns.
english_fillers == SubSeq(filler_patterns, 1, 7)

chinese_fillers == SubSeq(filler_patterns, 8, Len(filler_patterns))

\* The cleaning of _simple_clean with the list patterns in place of
\* filler_patterns.
cleaned_with(patterns, user_input) ==
    LET cleaned0 == Strip(user_input)
        lower_cleaned == Lower(cleaned0)
        hits == {k \in 1..Len(patterns) : StartsWith(lower_cleaned, patterns[k])}
        first == CHOOSE k \in hits : \A j \in hits : k <= j
        cleaned1 == IF hits = {} THEN cleaned0
                    ELSE Strip(DropFirst(cleaned0, Len(patterns[first])))
    IN  IF cleaned1 # <<>> THEN <<UpperChar(Head(cleaned1))>> \o Tail(cleaned1) ELSE cleaned1

\* C24: fallback cleaning removes a filler prefix of the language detected
\* for the input only (Chinese prefixes from a text with a CJK character,
\* English ones from any other text) and capitalises the first letter.
C24_FillersOfDetectedLanguage ==
    task[1].op = "_simple_clean" =>
        task[1].ret = IF detect_chinese(task[1].arg)
                      THEN cleaned_with(chinese_fillers, task[1].arg)
                      ELSE cleaned_with(english_fillers, task[1].arg)

\* The session ids with a websocket in manager.active_connections are those
\* with a SessionManager in manager.sessions.
RegistriesAgree ==
    \A sid \in Sids : active_connections[sid] # 0 <=> sessions[sid] # 0

ResultTypes == {"ai_response", "ai_response_refined", "error", "new_conversation"}

\* The step is the coroutine of c taking a user_input frame on a session that
\* is in manager.sessions.
UserInputReceived(c) ==
    /\ task[c].pc = "idle"
    /\ last'.conn = c
    /\ \/ task'[c].pc = "api"
       \/ last'.call.op \in {"start_session", "handle_feedback", "_handle_user_input"}

\* The step is the chat-completion call of c ending while the client of c is
\* still connected.
ResultDue(c) == task[c].pc = "api" /\ task'[c].pc = "idle" /\ conn[c].state = "open"

\* C26: for a user_input frame on a live session the server sends one
\* processing frame and after it one result frame (ai_response,
\* ai_response_refined, error or new_conversation): the step that takes the
\* frame sends the processing frame first and nothing but the result after it,
\* and the step that ends the call sends the result frame.
C26_ProcessingThenResult ==
    [][ \A c \in Conns :
            /\ UserInputReceived(c) =>
                   /\ Len(last'.frames) >= 1
                   /\ last'.frames[1].type = "processing"
                   /\ IF task'[c].pc = "api"
                      THEN Len(last'.frames) = 1
                      ELSE Len(last'.frames) = 2 /\ last'.frames[2].type \in ResultTypes
            /\ ResultDue(c) =>
                   Len(last'.frames) = 1 /\ last'.frames[1].type \in ResultTypes
      ]_vars

\* C27: once the handling of a request has ended (start_session or
\* handle_feedback returned, or the handler of the adapter caught what they
\* raised and returned), the status of the session is IDLE, WAITING_FEEDBACK
\* or ERROR and not PROCESSING.
C27_ProcessingIsTransient ==
    (/\ last.call.op \in {"start_session", "handle_feedback"}
     /\ conn[last.conn].state = "open"
     /\ sessions[conn[last.conn].sid] # 0)
    => /\ last.call.status_at_return \in {"IDLE", "WAITING_FEEDBACK", "ERROR"}
       /\ sm[sessions[conn[last.conn].sid]].status \in {"IDLE", "WAITING_FEEDBACK", "ERROR"}

\* The favorite the latest request names belongs to another user than the
\* one who made the request.
OthersFavorite(tk, table) ==
    /\ tk.op \in {"get_favorite_command", "update_favorite_command", "delete_favorite_command"}
    /\ tk.arg[2] \in DOMAIN table
    /\ Truthy(table[tk.arg[2]])
    /\ table[tk.arg[2]].user_id # tk.arg[1]

\* C28: a get, update or delete by one user of a favorite another user owns
\* is answered not found (404) and leaves the table as it was, and the list
\* of a user's favorites holds no favorite of another user.
C28_FavoritesPerUser ==
    [][ /\ OthersFavorite(task'[1], favoritecommand)
            => task'[1].ret.status_code = 404 /\ favoritecommand' = favoritecommand
        /\ task'[1].op = "get_favorite_commands"
            => \A i \in 1..Len(task'[1].ret.body) :
                   favoritecommand'[task'[1].ret.body[i].id].user_id = task'[1].arg[1]
      ]_vars

\* C28 witness: a user's DELETE of a favorite that another user owns was
\* answered 404 and the favorite is still stored.
C28_Witness ==
    /\ task[1].op = "delete_favorite_command"
    /\ OthersFavorite(task[1], favoritecommand)
    /\ task[1].ret.status_code = 404

\* C29: no user has two stored favorites with one command text, and a create
\* of a command the user has already is answered 400 and stores nothing.
C29_NoDuplicateFavorite ==
    /\ \A i, j \in FavoriteIds :
           (/\ i # j
            /\ Truthy(favoritecommand[i])
            /\ Truthy(favoritecommand[j])
            /\ favoritecommand[i].user_id = favoritecommand[j].user_id)
           => favoritecommand[i].command # favoritecommand[j].command
    /\ (task[1].op = "create_favorite_command" /\ task[1].ret.status_code = 200)
           => \A id \in FavoriteIds :
                  (/\ Truthy(favoritecommand[id])
                   /\ favoritecommand[id].user_id = task[1].arg[1]
                   /\ favoritecommand[id].command = task[1].arg[2])
                  => id = task[1].ret.body.id

\* C30: POST /chat answers 503 whenever the AI service reports that it is
\* not available, and answers 500 only when processing the message raised.
C30_UnavailableIs503 ==
    task[1].op = "chat_with_ai" =>
        /\ ~is_available(task[1].arg[1]) => task[1].ret.status_code = 503
        /\ task[1].ret.status_code = 500 =>
               /\ is_available(task[1].arg[1])
               /\ process_message(task[1].arg[1], task[1].arg[2], task[1].arg[3]).raised # "none"

====
